---- MODULE Spec2Model ----
(***************************************************************************)
(* Drift: the region pixel-sorting engine (PixelSort.sort).                *)
(*                                                                         *)
(* The repository holds three variants of the engine:                      *)
(*   "ref"  src/pixelsort.js 1-380    ray-cast polygon mask, exact feather *)
(*   "orig" src/pixelsort.js 382-627  threshold only (no mask, no feather) *)
(*   "opt"  src/unnamed/part_001      flat arrays, border-strip feather    *)
(*                                                                         *)
(* A buffer is a row-major sequence of RGBA tuples <<r, g, b, a>>; the     *)
(* pixel at (row, col) of the code's byte offset (row*imgWidth + col)*4 is *)
(* element row*ImgW + col + 1.  Scalars are IEEE doubles in the code; here *)
(* they are integers in fixed units (10^-6 of a level for brightness, the  *)
(* channels and gamma, 10^-5 degree for hue, 10^-4 percent for             *)
(* saturation), fine enough that two colours of the palette compare as     *)
(* their doubles do.                                                       *)
(***************************************************************************)
EXTENDS Integers, Sequences, FiniteSets, TLC

\* ------------------------------------------------------------ bounds
ImgW == 5
ImgH == 4
MaxRadius == 2
MaxCalls == 2
LongLen == 50

Modes == {"brightness", "hue", "saturation", "red", "green", "blue", "gamma"}
Directions == {"horizontal", "vertical"}
Variants == {"ref", "orig", "opt"}

\* The colours the buffers are drawn from.
Red10 == <<10, 0, 0, 255>>
Red5 == <<5, 0, 0, 255>>
Red8 == <<8, 0, 0, 255>>
Red1 == <<1, 0, 0, 255>>
Lime5 == <<5, 9, 0, 128>>
Gray8 == <<8, 8, 8, 255>>
Tan == <<200, 100, 50, 255>>
LinePalette == {Red10, Red5, Red8, Lime5}
Palette == LinePalette \cup {Red1, Gray8, Tan}

Max2(a, b) == IF a >= b THEN a ELSE b
Min2(a, b) == IF a <= b THEN a ELSE b
Abs(a) == IF a < 0 THEN -a ELSE a

\* ------------------------------------------------------------ scalars
\* Sign of the rounding error of the double 0.299*r + 0.587*g + 0.114*b
\* against the exact sum, for the colours of the palette (e.g. the double for
\* (8,8,8) is 7.999999999999999).
BrightnessRoundOff(r, g, b) ==
    IF <<r, g, b>> = <<200, 100, 50>> THEN 1
    ELSE IF <<r, g, b>> \in {<<10, 0, 0>>, <<5, 0, 0>>, <<8, 0, 0>>, <<1, 0, 0>>,
                             <<5, 9, 0>>, <<8, 8, 8>>} THEN -1
    ELSE 0

getBrightness(r, g, b) ==
    (299 * r + 587 * g + 114 * b) * 1000 + BrightnessRoundOff(r, g, b)

\* Math.pow(c / 255, 2.2) in units of 10^-5, for the channel values in use.
GammaLinear(c) ==
    CASE c = 0 -> 0
      [] c = 1 -> 1
      [] c = 5 -> 18
      [] c = 8 -> 49
      [] c = 9 -> 64
      [] c = 10 -> 80
      [] c = 50 -> 2776
      [] c = 100 -> 12753
      [] c = 200 -> 58597
      [] c = 255 -> 100000

getGamma(r, g, b) ==
    ((2126 * GammaLinear(r) + 7152 * GammaLinear(g) + 722 * GammaLinear(b)) \div 1000) * 255

Max3(r, g, b) == Max2(r, Max2(g, b))
Min3(r, g, b) == Min2(r, Min2(g, b))

\* rgbToHsl(r, g, b).h, in 10^-5 degree
getHue(r, g, b) ==
    LET max == Max3(r, g, b)
        min == Min3(r, g, b)
        d == max - min
    IN  IF max = min THEN 0
        ELSE IF max = r THEN (6000000 * (g - b)) \div d + (IF g < b THEN 36000000 ELSE 0)
        ELSE IF max = g THEN (6000000 * (b - r)) \div d + 12000000
        ELSE (6000000 * (r - g)) \div d + 24000000

\* rgbToHsl(r, g, b).s, in 10^-4 percent
getSaturation(r, g, b) ==
    LET max == Max3(r, g, b)
        min == Min3(r, g, b)
        d == max - min
    IN  IF max = min THEN 0
        ELSE IF max + min > 255 THEN (1000000 * d) \div (510 - max - min)
        ELSE (1000000 * d) \div (max + min)

getPixelValue(r, g, b, mode) ==
    CASE mode = "brightness" -> getBrightness(r, g, b)
      [] mode = "hue" -> getHue(r, g, b)
      [] mode = "saturation" -> getSaturation(r, g, b)
      [] mode = "red" -> r * 1000000
      [] mode = "green" -> g * 1000000
      [] mode = "blue" -> b * 1000000
      [] mode = "gamma" -> getGamma(r, g, b)
      [] OTHER -> getBrightness(r, g, b)

\* The scalar of a pixel tuple.
PixVal(p, mode) == getPixelValue(p[1], p[2], p[3], mode)

\* The normalized value as a fraction n/d of a level (0..255).
normalizeValue(val, mode) ==
    IF mode = "hue" THEN [n |-> val * 17, d |-> 2400000]
    ELSE IF mode = "saturation" THEN [n |-> val * 51, d |-> 200000]
    ELSE [n |-> val, d |-> 1000000]

\* A window test that accepts a value meeting either bound.
InWindowEither(nv, lower, upper) == nv.n >= lower * nv.d \/ nv.n <= upper * nv.d

\* A window test with an exclusive lower bound.
InWindowExclusive(nv, lower, upper) == nv.n > lower * nv.d /\ nv.n <= upper * nv.d

\* normVal >= lower && normVal <= upper
InWindow(nv, lower, upper) == nv.n >= lower * nv.d /\ nv.n <= upper * nv.d

\* values[i] of the flat-array variant is a Float32Array element: the store
\* rounds the double to single precision, which absorbs the rounding error of
\* the brightness sum.
Float32Value(p, mode) ==
    LET v == PixVal(p, mode)
    IN  normalizeValue(IF mode \in {"hue", "saturation", "red", "green", "blue", "gamma"}
                       THEN v
                       ELSE v - BrightnessRoundOff(p[1], p[2], p[3]), mode)

\* ------------------------------------------------------------ geometry
\* vs.length > 2: a polygon is in use (selectionPoints is null or [] otherwise)
hasPolygon(pts) == Len(pts) > 2

\* One edge (vs[i], vs[j]) of the ray cast: does the ray from (x, y) cross it?
Intersect(x, y, vi, vj) ==
    /\ (vi.y > y) # (vj.y > y)
    /\ LET num == (vj.x - vi.x) * (y - vi.y)
           den == vj.y - vi.y
       IN  IF den > 0 THEN (x - vi.x) * den < num ELSE (x - vi.x) * den > num

RECURSIVE RayCast(_, _, _, _, _)
RayCast(x, y, vs, i, inside) ==
    IF i > Len(vs) THEN inside
    ELSE LET j == IF i = 1 THEN Len(vs) ELSE i - 1
         IN  RayCast(x, y, vs, i + 1,
                     IF Intersect(x, y, vs[i], vs[j]) THEN ~inside ELSE inside)

\* A mask test that lets every pixel of the bounding box through.
isPointInPolygonAlways(x, y, vs) == TRUE

isPointInPolygon(x, y, vs) ==
    IF Len(vs) < 3 THEN TRUE ELSE RayCast(x, y, vs, 1, FALSE)

\* Squared distance from (px, py) to the segment (x1,y1)-(x2,y2), as n/d.
pointToLineDistance(px, py, x1, y1, x2, y2) ==
    LET A == px - x1
        B == py - y1
        C == x2 - x1
        D == y2 - y1
        dot == A * C + B * D
        len_sq == C * C + D * D
    IN  IF len_sq = 0 \/ dot < 0 THEN [n |-> A * A + B * B, d |-> 1]
        ELSE IF dot > len_sq
             THEN [n |-> (px - x2) * (px - x2) + (py - y2) * (py - y2), d |-> 1]
        ELSE [n |-> (A * D - B * C) * (A * D - B * C), d |-> len_sq]

RECURSIVE MinEdgeDist(_, _, _, _, _)
MinEdgeDist(px, py, vs, i, minDist) ==
    IF i > Len(vs) THEN minDist
    ELSE LET j == IF i = 1 THEN Len(vs) ELSE i - 1
             dd == pointToLineDistance(px, py, vs[j].x, vs[j].y, vs[i].x, vs[i].y)
         IN  MinEdgeDist(px, py, vs, i + 1,
                         IF minDist.d = 0 \/ dd.n * minDist.d < minDist.n * dd.d
                         THEN dd ELSE minDist)

\* floor(10 * sqrt(q.n / q.d)), capped at cap
SqrtTenths(q, cap) ==
    CHOOSE s \in 0..cap :
        /\ s * s * q.d <= 100 * q.n
        /\ s = cap \/ (s + 1) * (s + 1) * q.d > 100 * q.n

\* A distance that takes the last column and row of the box for its far edges.
getDistanceToBoundaryInclusive(px, py, sel, pts, radius) ==
    IF hasPolygon(pts)
    THEN SqrtTenths(MinEdgeDist(px, py, pts, 1, [n |-> 0, d |-> 0]), 10 * radius)
    ELSE Min2(10 * radius,
              10 * Min2(Min2(Abs(px - sel.x), Abs(px - (sel.x + sel.w - 1))),
                        Min2(Abs(py - sel.y), Abs(py - (sel.y + sel.h - 1)))))

\* getDistanceToBoundary(px, py) in tenths of a pixel (exact for rectangles),
\* capped at 10 * radius: the caller only asks whether it is below the radius
\* and, if so, what it is.
getDistanceToBoundary(px, py, sel, pts, radius) ==
    IF hasPolygon(pts)
    THEN SqrtTenths(MinEdgeDist(px, py, pts, 1, [n |-> 0, d |-> 0]), 10 * radius)
    ELSE Min2(10 * radius,
              10 * Min2(Min2(Abs(px - sel.x), Abs(px - (sel.x + sel.w))),
                        Min2(Abs(py - sel.y), Abs(py - (sel.y + sel.h)))))

\* ------------------------------------------------------------ blending
\* The Uint8ClampedArray store of the non-negative fraction n/d: round to
\* nearest, ties to even, clamp to 0..255.
ToUint8Clamp(n, d) ==
    LET q == n \div d
        r == n % d
        v == IF 2 * r > d \/ (2 * r = d /\ q % 2 = 1) THEN q + 1 ELSE q
    IN  Max2(0, Min2(255, v))

\* orig + (cur - orig) * factor with t = dist / radius, factor = t*t*(3 - 2*t);
\* dist10 is the distance in tenths of a pixel.
BlendChannel(orig, cur, dist10, radius) ==
    LET num == dist10 * dist10 * (30 * radius - 2 * dist10)
        den == 1000 * radius * radius * radius
    IN  ToUint8Clamp(orig * den + (cur - orig) * num, den)

blendPixel(origP, curP, dist10, radius) ==
    [c \in 1..4 |-> BlendChannel(origP[c], curP[c], dist10, radius)]

\* ------------------------------------------------------------ state
VARIABLES
    inp,            \* the selection and options of the call
    data,           \* imageData.data
    originalData,   \* the pre-sort copy kept for feathering, <<>> when none
    pc,             \* where the call is: start, line, interval, noise, done, thrown
    lineIdx,        \* the line being processed
    todo,           \* the runs of the line still to sort
    cur,            \* the run being noised: its indices, entries, swaps done and to do
    draws,          \* calls of Math.random in this call
    calls,          \* calls of sort() so far, this one included
    before,         \* the buffer as it was when this call began
    preFeather,     \* the buffer when the line loop ended, <<>> until then
    input0,         \* the buffer given to the first call
    log,            \* the runs sorted by this call: line, positions, swaps
    thrown,         \* the exception that ended the call, "" when none
    remaining,      \* the lines not yet processed, when their order is free
    app             \* the page around the engine: canvas, selection, history, timers

vars == <<inp, data, originalData, pc, lineIdx, todo, cur, draws, calls, before,
          preFeather, input0, log, thrown, remaining, app>>

\* const imgWidth = imageData.width
imgWidth == inp.imgWidth

\* ------------------------------------------------------------ lines
LineCount(sel, direction) == IF direction = "horizontal" THEN sel.h ELSE sel.w
LineLen(sel, direction) == IF direction = "horizontal" THEN sel.w ELSE sel.h

\* A row computed without the selection's offset in a column scan.
RowOfNoOffset(sel, direction, line, i) ==
    IF direction = "horizontal" THEN sel.y + line ELSE i

RowOf(sel, direction, line, i) ==
    IF direction = "horizontal" THEN sel.y + line ELSE sel.y + i
ColOf(sel, direction, line, i) ==
    IF direction = "horizontal" THEN sel.x + i ELSE sel.x + line

\* An offset computed without the row stride: the lines overlap.
IdxNoWidth(row, col) == row + col + 1

\* The element of the buffer at (row, col): the byte offset (row*imgWidth + col)*4.
Idx(row, col) == row * imgWidth + col + 1

\* indices[i], for i in 0..lineLen-1 (here a sequence, element i+1)
LineIndices(sel, direction, line) ==
    [k \in 1..Max2(0, LineLen(sel, direction)) |->
        Idx(RowOf(sel, direction, line, k - 1), ColOf(sel, direction, line, k - 1))]

\* The mask bitmap of the "opt" variant (w*h flags, row-major over the bounding
\* box), <<>> for null.  It is read back from a polygon filled on a host
\* canvas (alpha > 127), so its content is the host's: in.hostMask.
polygonMask(in) ==
    IF in.variant = "opt" /\ hasPolygon(in.pts) THEN in.hostMask ELSE <<>>

\* Is line position i (from 0) "in interval"?  The three variants differ in the
\* mask they consult and in the precision of the compared value.  An offset
\* outside the buffer reads undefined samples: the value is NaN (undefined for
\* the channel modes), both comparisons with the thresholds are false, and the
\* position is in no interval.  An offset inside the buffer whose column is
\* outside the image's width is the pixel of a neighbouring row.
InIntervalAt(buf, in, line, i) ==
    LET row == RowOf(in.sel, in.direction, line, i)
        col == ColOf(in.sel, in.direction, line, i)
        p == buf[Idx(row, col)]
        nv == normalizeValue(PixVal(p, in.mode), in.mode)
    IN  /\ Idx(row, col) \in 1..Len(buf)
        /\ CASE in.variant = "ref" ->
                /\ (hasPolygon(in.pts) => isPointInPolygon(col, row, in.pts))
                /\ InWindow(nv, in.lower, in.upper)
          [] in.variant = "orig" -> InWindow(nv, in.lower, in.upper)
          [] in.variant = "opt" ->
                /\ (polygonMask(in) # <<>> =>
                        polygonMask(in)[(row - in.sel.y) * in.sel.w + (col - in.sel.x) + 1] = 1)
                /\ InWindow(Float32Value(p, in.mode), in.lower, in.upper)

LineFlags(buf, in, line) ==
    [k \in 1..Max2(0, LineLen(in.sel, in.direction)) |-> InIntervalAt(buf, in, line, k - 1)]

\* detectIntervals of the "ref" and "orig" variants: the loop over the pixels
\* of a line, with the run being collected (current) and the runs found.
\* A loop that does not empty the run being collected when the run ends.
RECURSIVE detectLoopNoReset(_, _, _, _)
detectLoopNoReset(flags, i, current, intervals) ==
    IF i >= Len(flags)
    THEN IF Len(current) > 1 THEN Append(intervals, current) ELSE intervals
    ELSE IF flags[i + 1]
         THEN detectLoopNoReset(flags, i + 1, Append(current, i), intervals)
         ELSE detectLoopNoReset(flags, i + 1, current,
                                IF Len(current) > 1 THEN Append(intervals, current)
                                ELSE intervals)

RECURSIVE detectLoop(_, _, _, _)
detectLoop(flags, i, current, intervals) ==
    IF i >= Len(flags)
    THEN IF Len(current) > 1 THEN Append(intervals, current) ELSE intervals
    ELSE IF flags[i + 1]
         THEN detectLoop(flags, i + 1, Append(current, i), intervals)
         ELSE detectLoop(flags, i + 1, <<>>,
                         IF Len(current) > 1 THEN Append(intervals, current) ELSE intervals)

detectIntervals(flags) == detectLoop(flags, 0, <<>>, <<>>)

\* The inline detection loop of the "opt" variant: i runs to lineLen inclusive,
\* intervalStart is -1 outside a run; a run of len > 1 goes to sortInterval.
RECURSIVE inlineLoop(_, _, _, _)
inlineLoop(flags, i, intervalStart, found) ==
    IF i > Len(flags) THEN found
    ELSE LET inInterval == i < Len(flags) /\ flags[i + 1]
         IN  IF inInterval
             THEN inlineLoop(flags, i + 1, IF intervalStart = -1 THEN i ELSE intervalStart, found)
             ELSE IF intervalStart # -1 /\ i - intervalStart > 1
                  THEN inlineLoop(flags, i + 1, -1,
                                  Append(found, [k \in 1..(i - intervalStart) |->
                                                    intervalStart + k - 1]))
                  ELSE inlineLoop(flags, i + 1, -1, found)

\* The runs of a line that the variant sorts, each a sequence of line positions.
IntervalsOf(buf, in, line) ==
    IF in.variant = "opt"
    THEN inlineLoop(LineFlags(buf, in, line), 0, -1, <<>>)
    ELSE detectIntervals(LineFlags(buf, in, line))

\* ------------------------------------------------------------ sorting
\* An insertion that ignores the order: the entries end up reversed.
InsertByValueFront(t, e, mode) == <<e>> \o t

\* An insertion that puts e before the elements it ties with.
InsertByValueBeforeTies(t, e, mode) ==
    LET k == Cardinality({i \in 1..Len(t) : PixVal(t[i], mode) < PixVal(e, mode)})
    IN  SubSeq(t, 1, k) \o <<e>> \o SubSeq(t, k + 1, Len(t))

\* Array.prototype.sort with the comparator a.val - b.val: ascending and
\* stable (ECMAScript 2019).  e goes after every element not greater than it.
InsertByValue(t, e, mode) ==
    LET k == Cardinality({i \in 1..Len(t) : PixVal(t[i], mode) <= PixVal(e, mode)})
    IN  SubSeq(t, 1, k) \o <<e>> \o SubSeq(t, k + 1, Len(t))

\* A sort that inserts the elements from the last to the first: ascending,
\* with the elements of equal value in reverse input order.
RECURSIVE SortByValueFromEnd(_, _)
SortByValueFromEnd(s, mode) ==
    IF Len(s) <= 1 THEN s
    ELSE InsertByValue(SortByValueFromEnd(Tail(s), mode), Head(s), mode)

RECURSIVE SortByValue(_, _)
SortByValue(s, mode) ==
    IF Len(s) <= 1 THEN s
    ELSE InsertByValue(SortByValue(SubSeq(s, 1, Len(s) - 1), mode), s[Len(s)], mode)

\* (amount / 100) * len is a product of doubles: amount / 100 is rounded, and
\* so is the product.  Where amount * len is a multiple of 100 the product can
\* land one unit in the last place below the integer; for amount in 0..100
\* and len up to 100 it does so at exactly these pairs (0.58 * 50 is
\* 28.999999999999996), and nowhere does it land on or above the next integer.
ProductBelowInteger(amount, len) ==
    <<amount, len>> \in {<<58, 50>>, <<70, 90>>, <<29, 100>>, <<57, 100>>, <<58, 100>>}

\* A swap count that is never below one.
SwapCountAtLeastOne(amount, len) == Max2(1, (amount * len) \div 100)

\* Math.floor((amount / 100) * len); no swap when amount <= 0 or len < 2
SwapCount(amount, len) ==
    IF amount <= 0 \/ len < 2 THEN 0
    ELSE (amount * len) \div 100 - (IF ProductBelowInteger(amount, len) THEN 1 ELSE 0)

\* One swap of the colour data of entries a and b (from 0).
SwapEntries(entries, a, b) ==
    [k \in 1..Len(entries) |->
        IF k = a + 1 THEN entries[b + 1]
        ELSE IF k = b + 1 THEN entries[a + 1]
        ELSE entries[k]]

\* Write entries back at the positions the run came from.
\* A write-back of the three colour samples only: every position keeps the
\* alpha sample it had.
WriteBackKeepAlpha(buf, indices, entries) ==
    [k \in 1..Len(buf) |->
        IF \E i \in 1..Len(indices) : indices[i] = k
        THEN LET e == entries[CHOOSE i \in 1..Len(indices) : indices[i] = k]
             IN  <<e[1], e[2], e[3], buf[k][4]>>
        ELSE buf[k]]

WriteBack(buf, indices, entries) ==
    [k \in 1..Len(buf) |->
        IF \E i \in 1..Len(indices) : indices[i] = k
        THEN entries[CHOOSE i \in 1..Len(indices) : indices[i] = k]
        ELSE buf[k]]

\* ------------------------------------------------------------ feathering
BBoxRows(sel) == sel.y..(sel.y + sel.h - 1)
BBoxCols(sel) == sel.x..(sel.x + sel.w - 1)
RowAt(k) == (k - 1) \div imgWidth
ColAt(k) == (k - 1) % imgWidth
InBBox(sel, k) == RowAt(k) \in BBoxRows(sel) /\ ColAt(k) \in BBoxCols(sel)

\* The feather pass of the "ref" variant: every pixel of the bounding box
\* whose distance to the boundary is below the radius is blended.
FeatherRef(buf, orig, sel, pts, radius) ==
    [k \in 1..Len(buf) |->
        IF InBBox(sel, k)
        THEN LET dist10 == getDistanceToBoundary(ColAt(k), RowAt(k), sel, pts, radius)
             IN  IF dist10 < 10 * radius
                 THEN blendPixel(orig[k], buf[k], dist10, radius)
                 ELSE buf[k]
        ELSE buf[k]]

\* applyFeathering of the "opt" variant on a rectangle: the distances, in
\* order, with which blendPixel is called on the pixel at (row, col).
StripBlends(row, col, sel, radius) ==
    LET dy1 == row - sel.y
        dy2 == (sel.y + sel.h) - row
        minDy == IF dy1 < dy2 THEN dy1 ELSE dy2
        dx1 == col - sel.x
        dx2 == (sel.x + sel.w) - col
        minDx == IF dx1 < dx2 THEN dx1 ELSE dx2
        dist == IF minDy < minDx THEN minDy ELSE minDx
    IN  IF minDy >= radius
        THEN (IF col < Min2(sel.x + radius, sel.x + sel.w) THEN <<dx1>> ELSE <<>>)
             \o (IF col >= Max2(sel.x + sel.w - radius, sel.x) THEN <<dx2>> ELSE <<>>)
        ELSE IF dist < radius THEN <<dist>> ELSE <<>>

RECURSIVE BlendAll(_, _, _, _)
BlendAll(origP, curP, dists, radius) ==
    IF dists = <<>> THEN curP
    ELSE BlendAll(origP, blendPixel(origP, curP, 10 * Head(dists), radius), Tail(dists), radius)

\* The polygon branch blends with the alpha of a blurred fill of the host
\* canvas (hostAlpha, w*h samples): factor = alpha / 255 where alpha < 255.
applyFeathering(buf, orig, sel, radius, pts, hostAlpha) ==
    [k \in 1..Len(buf) |->
        IF ~InBBox(sel, k) THEN buf[k]
        ELSE IF hasPolygon(pts)
        THEN LET alpha == hostAlpha[(RowAt(k) - sel.y) * sel.w + (ColAt(k) - sel.x) + 1]
             IN  IF alpha < 255
                 THEN [c \in 1..4 |->
                          ToUint8Clamp(orig[k][c] * 255 + (buf[k][c] - orig[k][c]) * alpha, 255)]
                 ELSE buf[k]
        ELSE BlendAll(orig[k], buf[k], StripBlends(RowAt(k), ColAt(k), sel, radius), radius)]

\* ------------------------------------------------------------ inputs
PalSeq == <<Red10, Red5, Red8, Red1, Lime5, Gray8, Tan>>
TestRow(b, a) == [i \in 1..ImgW |-> PalSeq[((b + a * (i - 1)) % 7) + 1]]
TestRows == {TestRow(0, 1), TestRow(5, 3), TestRow(6, 2)}

\* The image whose row r is the row r0 rotated left by r.
Image(r0) ==
    [k \in 1..(ImgW * ImgH) |-> r0[((((k - 1) % ImgW) + ((k - 1) \div ImgW)) % ImgW) + 1]]

Thresholds == {0, 6, 8, 255}

\* getPolygonBoundingBox of the caller: the selection passed with a polygon.
RECURSIVE SeqMin(_, _)
SeqMin(s, i) == IF i = Len(s) THEN s[i] ELSE Min2(s[i], SeqMin(s, i + 1))
RECURSIVE SeqMax(_, _)
SeqMax(s, i) == IF i = Len(s) THEN s[i] ELSE Max2(s[i], SeqMax(s, i + 1))
getPolygonBoundingBox(points) ==
    LET xs == [i \in 1..Len(points) |-> points[i].x]
        ys == [i \in 1..Len(points) |-> points[i].y]
    IN  [x |-> SeqMin(xs, 1), y |-> SeqMin(ys, 1),
         w |-> SeqMax(xs, 1) - SeqMin(xs, 1), h |-> SeqMax(ys, 1) - SeqMin(ys, 1)]

Pt(x, y) == [x |-> x, y |-> y]
Rect(x, y, w, h) == [sel |-> [x |-> x, y |-> y, w |-> w, h |-> h], pts |-> <<>>]
\* A polygon goes to sort() with its bounding box as the selection.  (The
\* lasso of the page keeps a polygon only when its box is wider and higher
\* than 2; sort() itself takes any, and small ones are given to it here.)
Poly(points) == [sel |-> getPolygonBoundingBox(points), pts |-> points]

Full == Rect(0, 0, ImgW, ImgH)
Inner == Rect(1, 1, 2, 2)
OneRow == Rect(0, 1, ImgW, 1)
OneCol == Rect(1, 0, 1, ImgH)
ExampleRow == Rect(0, 0, 4, 1)
Notch == Poly(<<Pt(0, 0), Pt(ImgW, 0), Pt(ImgW, ImgH), Pt(2, 1), Pt(0, ImgH)>>)
Tri == Poly(<<Pt(0, 0), Pt(ImgW, 0), Pt(0, ImgH)>>)
SmallTri == Poly(<<Pt(1, 0), Pt(3, 0), Pt(1, 2)>>)
Box == Poly(<<Pt(1, 1), Pt(4, 1), Pt(4, 3), Pt(1, 3)>>)

Options(variants, shapes, modes, directions, lowers, uppers, noises, radii) ==
    {[variant |-> v, sel |-> s.sel, pts |-> s.pts, mode |-> m, direction |-> d,
      lower |-> lo, upper |-> up, noiseAmount |-> n,
      feather |-> (r > 0), featherRadius |-> r, imgWidth |-> ImgW,
      hostMask |-> <<>>, hostAlpha |-> <<>>] :
        v \in variants, s \in shapes, m \in modes, d \in directions,
        lo \in lowers, up \in uppers, n \in noises, r \in radii}

ImageA == Image(TestRow(0, 1))
ImageB == Image(TestRow(5, 3))
TestImages == {Image(r) : r \in TestRows}

\* Every line content over the line palette: every mode on the full window,
\* and red on a window that splits the line.
LineCases ==
    (Options({"ref"}, {OneRow}, Modes, {"horizontal"}, {0}, {255}, {0}, {0})
        \cup Options({"ref"}, {OneRow}, {"red"}, {"horizontal"}, {8}, {255}, {0, 50}, {0}))
    \X {Image(r) : r \in [1..ImgW -> LinePalette]}

\* The 1x4 row of red values 10, 5, 8, 1.
ExampleCases ==
    Options(Variants, {ExampleRow}, {"red"}, {"horizontal"}, {0}, {255}, {0, 50}, {0})
        \X {ImageA}

\* Every variant, mode, direction and threshold window on rectangles.
WindowCases ==
    Options(Variants, {Full, Inner}, Modes, Directions, Thresholds, Thresholds,
            {0}, {0}) \X TestImages

\* Empty windows (lower > upper) with noise and feathering.
EmptyWindowCases ==
    Options(Variants, {Full, Inner}, Modes, Directions, {8, 255}, {0, 6},
            {0, 100}, {0, 1}) \X {ImageB}

\* Noise.
NoiseCases ==
    (Options(Variants, {ExampleRow, Inner}, {"red", "hue"}, Directions, {0, 6}, {255},
             {30, 50, 100}, {0}) \X {ImageA, ImageB})
    \cup (Options({"ref", "opt"}, {Inner}, {"red"}, {"horizontal"}, {0}, {255},
                  {100}, {1}) \X {ImageA})

\* Feathering on rectangles.
FeatherCases ==
    Options(Variants, {Full, Inner, OneRow, OneCol}, {"red"}, Directions, {0, 6}, {255},
            {0}, 1..MaxRadius) \X TestImages

\* Feathering on a rectangle narrower than twice the radius and high enough
\* for rows at the radius or more from its top and bottom.
NarrowFeatherCases ==
    Options({"ref", "opt"}, {Rect(1, 0, 2, ImgH)}, {"red"}, {"horizontal"}, {0}, {255}, {0}, {2})
        \X {ImageA, ImageB}

\* A row of grey 8 and tan pixels in turn, sorted by brightness with the lower
\* threshold at the brightness of the grey.
GreyTanRow == [i \in 1..ImgW |-> IF i % 2 = 1 THEN Tan ELSE Gray8]
BoundaryCases ==
    Options(Variants, {OneRow}, {"brightness"}, {"horizontal"}, {8}, {255}, {0, 50}, {0})
        \X {Image(GreyTanRow)}

\* The feather box ticked with a radius of 0.
ZeroRadiusCases ==
    {[o EXCEPT !.feather = TRUE] :
        o \in Options(Variants, {Full, Inner}, {"red"}, Directions, {0, 6}, {255}, {0}, {0})}
        \X {ImageA, ImageB}

\* Polygons on the "ref" variant.  (The "orig" variant has no polygon
\* parameter; the "opt" variant is run on polygons in HostCases.)
PolygonCases ==
    (Options({"ref"}, {Notch, Tri, SmallTri}, {"red", "brightness"}, Directions,
             {0, 6}, {255}, {0}, 0..MaxRadius) \X {ImageA, ImageB})
    \cup (Options({"ref"}, {Box}, {"red"}, Directions, {0}, {255},
                  {50}, {0, 1}) \X {ImageA})

\* The "opt" variant on a polygon, for every mask the host canvas may return
\* and, with feathering, every blurred alpha over three levels.
HostCases ==
    LET n == SmallTri.sel.w * SmallTri.sel.h
    IN  {<<[o EXCEPT !.hostMask = m, !.hostAlpha = al], ImageA>> :
            o \in Options({"opt"}, {SmallTri}, {"red"}, {"horizontal"}, {0}, {255}, {0}, {0, 1}),
            m \in [1..n -> {0, 1}],
            al \in [1..n -> {0, 128, 255}]}

\* Selections of zero or negative width or height.
DegenerateCases ==
    Options(Variants,
            {Rect(1, 1, 0, 2), Rect(1, 1, 2, 0), Rect(1, 1, -1, 2), Rect(1, 1, 2, -1),
             Rect(1, 1, 0, 0), Rect(1, 1, -1, -1)},
            {"red"}, Directions, {0}, {255}, {0, 50}, {0, 1}) \X {ImageA}

\* Thresholds outside 0..255 and noise amounts outside 0..100.
InvalidCases ==
    Options(Variants, {Inner}, {"red"}, {"horizontal"}, {-1, 0}, {255, 256},
            {-1, 0, 150}, {0}) \X {ImageA}

\* A mode that is none of the seven.
OtherModeCases ==
    Options(Variants, {Full}, {"value"}, Directions, {0, 6}, {255}, {0}, {0})
        \X {ImageA, ImageB}

Cases ==
    LineCases \cup ExampleCases \cup WindowCases \cup EmptyWindowCases \cup NoiseCases
              \cup FeatherCases \cup NarrowFeatherCases \cup BoundaryCases
              \cup ZeroRadiusCases
              \cup PolygonCases \cup HostCases
              \cup DegenerateCases \cup InvalidCases \cup OtherModeCases

\* ------------------------------------------------------------ the call
NoCur == [indices |-> <<>>, entries |-> <<>>, s |-> 0, n |-> 0]

\* sort() called on its own, without the page.
NoApp == [page |-> "none"]

Init ==
    /\ \E c \in Cases : inp = c[1] /\ data = c[2] /\ input0 = c[2]
    /\ originalData = <<>>
    /\ pc = "start"
    /\ lineIdx = 0
    /\ todo = <<>>
    /\ cur = NoCur
    /\ draws = 0
    /\ calls = 1
    /\ before = <<>>
    /\ preFeather = <<>>
    /\ log = <<>>
    /\ thrown = ""
    /\ remaining = {}
    /\ app = NoApp

\* A feather test that does not look at the radius.
FeatherOnAnyRadius == inp.variant # "orig" /\ inp.feather

FeatherOn == inp.variant # "orig" /\ inp.feather /\ inp.featherRadius > 0

\* sort(): the entry, up to the line loop.
Enter ==
    /\ pc = "start"
    /\ originalData' = IF FeatherOn THEN data ELSE <<>>
    /\ before' = data
    /\ lineIdx' = 0
    /\ pc' = "line"
    /\ UNCHANGED <<inp, data, todo, cur, draws, calls, preFeather, input0, log>>
    /\ UNCHANGED <<thrown, remaining, app>>

\* One line: its pixels are read and its runs detected.  The flat-array
\* variant first allocates the line's arrays: new Int32Array(lineLen) throws a
\* RangeError when lineLen is negative, and the call ends there.
BeginLine ==
    /\ pc = "line"
    /\ lineIdx < LineCount(inp.sel, inp.direction)
    /\ IF inp.variant = "opt" /\ LineLen(inp.sel, inp.direction) < 0
       THEN /\ thrown' = "RangeError"
            /\ pc' = "thrown"
            /\ UNCHANGED todo
       ELSE /\ todo' = IntervalsOf(data, inp, lineIdx)
            /\ pc' = "interval"
            /\ UNCHANGED thrown
    /\ UNCHANGED <<inp, data, originalData, lineIdx, cur, draws, calls, before,
                   preFeather, input0, log, remaining, app>>

\* One run: sorted, then written back at once when no swap is due.
SortInterval ==
    /\ pc = "interval"
    /\ todo # <<>>
    /\ LET iv == Head(todo)
           line == LineIndices(inp.sel, inp.direction, lineIdx)
           indices == [k \in 1..Len(iv) |-> line[iv[k] + 1]]
           entries == SortByValue([k \in 1..Len(iv) |-> data[indices[k]]], inp.mode)
           n == SwapCount(inp.noiseAmount, Len(iv))
       IN  /\ todo' = Tail(todo)
           /\ IF n = 0
              THEN /\ data' = WriteBack(data, indices, entries)
                   /\ log' = Append(log, [line |-> lineIdx, pos |-> iv, swaps |-> 0])
                   /\ UNCHANGED <<cur, pc>>
              ELSE /\ cur' = [indices |-> indices, entries |-> entries, s |-> 0, n |-> n]
                   /\ pc' = "noise"
                   /\ log' = Append(log, [line |-> lineIdx, pos |-> iv, swaps |-> 0])
                   /\ UNCHANGED data
    /\ UNCHANGED <<inp, originalData, lineIdx, draws, calls, before, preFeather, input0>>
    /\ UNCHANGED <<thrown, remaining, app>>

\* One swap of the noise loop: two draws a and b; after the last swap the run
\* is written back.
NoiseSwap ==
    /\ pc = "noise"
    /\ \E a, b \in 0..(Len(cur.entries) - 1) :
        LET swapped == SwapEntries(cur.entries, a, b)
            last == cur.s + 1 >= cur.n
        IN  /\ draws' = draws + 2
            /\ log' = [log EXCEPT ![Len(log)].swaps = cur.s + 1]
            /\ IF last
               THEN /\ data' = WriteBack(data, cur.indices, swapped)
                    /\ cur' = NoCur
                    /\ pc' = "interval"
               ELSE /\ cur' = [cur EXCEPT !.entries = swapped, !.s = cur.s + 1]
                    /\ UNCHANGED <<data, pc>>
    /\ UNCHANGED <<inp, originalData, lineIdx, todo, calls, before, preFeather, input0>>
    /\ UNCHANGED <<thrown, remaining, app>>

EndLine ==
    /\ pc = "interval"
    /\ todo = <<>>
    /\ lineIdx' = lineIdx + 1
    /\ pc' = "line"
    /\ UNCHANGED <<inp, data, originalData, todo, cur, draws, calls, before,
                   preFeather, input0, log>>
    /\ UNCHANGED <<thrown, remaining, app>>

\* The feather pass, then the return.
Feather ==
    /\ pc = "line"
    /\ lineIdx >= LineCount(inp.sel, inp.direction)
    /\ FeatherOn
    /\ preFeather' = data
    /\ data' = IF inp.variant = "ref"
               THEN FeatherRef(data, originalData, inp.sel, inp.pts, inp.featherRadius)
               ELSE applyFeathering(data, originalData, inp.sel, inp.featherRadius,
                                    inp.pts, inp.hostAlpha)
    /\ pc' = "done"
    /\ UNCHANGED <<inp, originalData, lineIdx, todo, cur, draws, calls, before, input0, log>>
    /\ UNCHANGED <<thrown, remaining, app>>

\* The return without a feather pass.
Return ==
    /\ pc = "line"
    /\ lineIdx >= LineCount(inp.sel, inp.direction)
    /\ ~FeatherOn
    /\ preFeather' = data
    /\ pc' = "done"
    /\ UNCHANGED <<inp, data, originalData, lineIdx, todo, cur, draws, calls, before, input0, log>>
    /\ UNCHANGED <<thrown, remaining, app>>

\* The caller sorts the result again with the same selection and options.
Again ==
    /\ pc = "done"
    /\ calls < MaxCalls
    /\ inp.noiseAmount = 0
    /\ calls' = calls + 1
    /\ pc' = "start"
    /\ originalData' = <<>>
    /\ lineIdx' = 0
    /\ draws' = 0
    /\ preFeather' = <<>>
    /\ log' = <<>>
    /\ UNCHANGED <<inp, data, todo, cur, before, input0>>
    /\ UNCHANGED <<thrown, remaining, app>>

Next ==
    \/ Enter
    \/ BeginLine
    \/ SortInterval
    \/ NoiseSwap
    \/ EndLine
    \/ Feather
    \/ Return
    \/ Again

Spec == Init /\ [][Next]_vars

\* ------------------------------------------------------------ the noise step
\* applyNoise on its own, on runs longer than the lines of the images above:
\* the call is entered with a one-row image of len equal pixels, all of them
\* one run, which has just been sorted.
NoiseAmounts == {29, 58}
NoiseLens == 2..5 \cup {LongLen \div 2, LongLen}

NoiseInit ==
    \E o \in Options(Variants, {Full}, {"red"}, {"horizontal"}, {0}, {255}, NoiseAmounts, {0}),
       len \in NoiseLens :
        LET row == [k \in 1..len |-> Red8]
            n == SwapCount(o.noiseAmount, len)
        IN  /\ inp = [o EXCEPT !.imgWidth = len, !.sel = Rect(0, 0, len, 1).sel]
            /\ data = row /\ input0 = row /\ before = row
            /\ originalData = <<>>
            /\ pc = IF n = 0 THEN "interval" ELSE "noise"
            /\ lineIdx = 0
            /\ todo = <<>>
            /\ cur = IF n = 0 THEN NoCur
                     ELSE [indices |-> [k \in 1..len |-> k], entries |-> row,
                           s |-> 0, n |-> n]
            /\ draws = 0
            /\ calls = 1
            /\ preFeather = <<>>
            /\ log = <<[line |-> 0, pos |-> [k \in 1..len |-> k - 1], swaps |-> 0]>>
            /\ thrown = ""
            /\ remaining = {}
            /\ app = NoApp

NoiseNext == NoiseSwap

NoiseSpec == NoiseInit /\ [][NoiseNext]_vars

\* ------------------------------------------------- the lines in any order
\* The same call with its line loop run in any order and interleaved: each
\* line is read and its runs detected at some point (a line of src/pixelsort.js
\* copies its pixels then, a line of the flat-array variant reads them again
\* when a run is sorted), and the runs of the lines begun are sorted one at a
\* time, those of one line in their order.  todo holds the runs still to be
\* sorted, of all the lines begun; remaining, the lines not yet begun.
TwoRunRow == [i \in 1..ImgW |-> IF i = 3 THEN Red10 ELSE IF i % 2 = 1 THEN Red5 ELSE Red1]

\* Selections of ParLines lines, so that every order of the lines is taken.
ParLines == 3
Band == Rect(0, 0, ImgW, ParLines)
Pillar == Rect(0, 0, ParLines, ImgH)
BandTri == Poly(<<Pt(0, 0), Pt(ImgW, 0), Pt(0, ParLines)>>)

ParCases ==
    (Options(Variants, {Band, Inner}, {"red", "hue"}, {"horizontal"}, {0, 6}, {255}, {0}, {0, 1})
        \X {ImageA, ImageB})
    \cup (Options(Variants, {Pillar, Inner}, {"red", "hue"}, {"vertical"}, {0, 6}, {255}, {0}, {0, 1})
        \X {ImageA, ImageB})
    \cup (Options(Variants, {Band}, {"red"}, {"horizontal"}, {0}, {6}, {0}, {0})
        \X {Image(TwoRunRow)})
    \cup (Options({"ref"}, {BandTri}, {"red"}, {"horizontal"}, {0}, {255}, {0}, {0, 1})
        \X {ImageA})

ParInit ==
    /\ \E c \in ParCases : inp = c[1] /\ data = c[2] /\ input0 = c[2]
    /\ originalData = <<>>
    /\ pc = "start"
    /\ lineIdx = 0
    /\ todo = <<>>
    /\ cur = NoCur
    /\ draws = 0
    /\ calls = 1
    /\ before = <<>>
    /\ preFeather = <<>>
    /\ log = <<>>
    /\ thrown = ""
    /\ remaining = {}
    /\ app = NoApp

ParEnter ==
    /\ pc = "start"
    /\ originalData' = IF FeatherOn THEN data ELSE <<>>
    /\ before' = data
    /\ remaining' = 0..(LineCount(inp.sel, inp.direction) - 1)
    /\ pc' = "line"
    /\ UNCHANGED <<inp, data, lineIdx, todo, cur, draws, calls, preFeather, input0, log,
                   thrown, app>>

\* A line is begun: its pixels are read and its runs detected.
ParBeginLine ==
    /\ pc = "line"
    /\ \E l \in remaining :
        LET runs == IntervalsOf(data, inp, l)
            line == LineIndices(inp.sel, inp.direction, l)
            Pending(iv) ==
                LET indices == [k \in 1..Len(iv) |-> line[iv[k] + 1]]
                IN  [line |-> l, pos |-> iv, indices |-> indices,
                     pixels |-> IF inp.variant = "opt" THEN <<>>
                                ELSE [k \in 1..Len(indices) |-> data[indices[k]]]]
        IN  /\ remaining' = remaining \ {l}
            /\ todo' = todo \o [k \in 1..Len(runs) |-> Pending(runs[k])]
    /\ UNCHANGED <<inp, data, originalData, pc, lineIdx, cur, draws, calls, before,
                   preFeather, input0, log, thrown, app>>

\* The next run of one of the lines begun is sorted and written back.
ParSortInterval ==
    /\ pc = "line"
    /\ \E i \in 1..Len(todo) :
        /\ \A j \in 1..(i - 1) : todo[j].line # todo[i].line
        /\ LET run == todo[i]
               pixels == IF inp.variant = "opt"
                         THEN [k \in 1..Len(run.indices) |-> data[run.indices[k]]]
                         ELSE run.pixels
           IN  /\ data' = WriteBack(data, run.indices, SortByValue(pixels, inp.mode))
               /\ log' = Append(log, [line |-> run.line, pos |-> run.pos, swaps |-> 0])
               /\ todo' = SubSeq(todo, 1, i - 1) \o SubSeq(todo, i + 1, Len(todo))
    /\ UNCHANGED <<inp, originalData, pc, lineIdx, cur, draws, calls, before,
                   preFeather, input0, thrown, remaining, app>>

ParFeather ==
    /\ pc = "line" /\ remaining = {} /\ todo = <<>>
    /\ FeatherOn
    /\ preFeather' = data
    /\ data' = IF inp.variant = "ref"
               THEN FeatherRef(data, originalData, inp.sel, inp.pts, inp.featherRadius)
               ELSE applyFeathering(data, originalData, inp.sel, inp.featherRadius,
                                    inp.pts, inp.hostAlpha)
    /\ pc' = "done"
    /\ UNCHANGED <<inp, originalData, lineIdx, todo, cur, draws, calls, before, input0, log,
                   thrown, remaining, app>>

ParReturn ==
    /\ pc = "line" /\ remaining = {} /\ todo = <<>>
    /\ ~FeatherOn
    /\ preFeather' = data
    /\ pc' = "done"
    /\ UNCHANGED <<inp, data, originalData, lineIdx, todo, cur, draws, calls, before,
                   input0, log, thrown, remaining, app>>

ParNext ==
    \/ ParEnter
    \/ ParBeginLine
    \/ ParSortInterval
    \/ ParFeather
    \/ ParReturn

ParSpec == ParInit /\ [][ParNext]_vars

\* ------------------------------------------------------------ the page
\* src/app.js, its later version (lines 874-1972), with an image loaded: the
\* canvas, the history, the selection, the preview and its debounce timer.
\* The page calls the engine of src/pixelsort.js (variant "ref"); a call runs
\* to its end before the page handles anything else.  The page is followed
\* with mode red, direction horizontal, no noise and the feather box
\* unticked; the lower threshold is the parameter that is edited.
\*
\* Time advances in ticks of 50 ms.  A timer that is due runs before time
\* advances further and before a later input is handled.
DebounceTicks == 3
MaxHistory == 2
PageThresholds == {0, 6}

\* Mouse paths in canvas coordinates (what getCanvasCoords returns for the
\* mousedown, the mousemoves and the mouseup): one that starts left of the
\* canvas (the mousedown is bound to the container, the others to the
\* window), and a click that hardly moves.
DragFromLeft == <<Pt(-1, 0), Pt(-1, 3), Pt(3, 3)>>
DragTiny == <<Pt(1, 1), Pt(2, 2)>>
Gestures == {DragFromLeft, DragTiny}

NoSelection == [x |-> 0, y |-> 0, w |-> 0, h |-> 0]

EngineVars ==
    <<inp, data, originalData, pc, lineIdx, todo, cur, draws, calls, before,
      preFeather, input0, log, thrown, remaining>>

\* sortParams of performSort, with the selection it passes.
SortParams(a) ==
    [variant |-> "ref", sel |-> a.selection,
     pts |-> IF a.lasso THEN a.selectionPoints ELSE <<>>,
     mode |-> "red", direction |-> "horizontal",
     lower |-> a.thresholdLower, upper |-> 255, noiseAmount |-> 0,
     feather |-> FALSE, featherRadius |-> 0, imgWidth |-> ImgW,
     hostMask |-> <<>>, hostAlpha |-> <<>>]

\* The engine's parameters while no call is running.
NoParams ==
    [variant |-> "ref", sel |-> NoSelection, pts |-> <<>>,
     mode |-> "red", direction |-> "horizontal",
     lower |-> 0, upper |-> 255, noiseAmount |-> 0,
     feather |-> FALSE, featherRadius |-> 0, imgWidth |-> ImgW,
     hostMask |-> <<>>, hostAlpha |-> <<>>]

AppInit ==
    /\ app = [page |-> "v2",
              canvas |-> ImageA,
              history |-> <<ImageA>>, historyIndex |-> 0,
              hasSel |-> FALSE, selection |-> NoSelection,
              selectionPoints |-> <<>>,
              previewBase |-> <<>>,
              drag |-> <<>>, dragStart |-> Pt(0, 0),
              lasso |-> FALSE, autoUpdate |-> TRUE,
              thresholdLower |-> 0,
              timers |-> {}, hotApplyTimer |-> 0,
              event |-> "other", quiet |-> DebounceTicks, sorts |-> 0, clean |-> FALSE,
              edits |-> 0,
              undoIndex |-> 0, undoCanvas |-> <<>>]
    /\ inp = NoParams
    /\ data = <<>>
    /\ originalData = <<>>
    /\ pc = "idle"
    /\ lineIdx = 0
    /\ todo = <<>>
    /\ cur = NoCur
    /\ draws = 0
    /\ calls = 1
    /\ before = <<>>
    /\ preFeather = <<>>
    /\ input0 = <<>>
    /\ log = <<>>
    /\ thrown = ""
    /\ remaining = {}

\* clearTimeout that clears nothing.
ClearTimeoutNoop(timers, id) == timers

ClearTimeout(timers, id) == {t \in timers : t.id # id}

\* setTimeout: the id of the new timer, unused by any pending timer.
FreshTimer(timers) ==
    CHOOSE i \in 1..(Cardinality(timers) + 1) :
        /\ \A t \in timers : t.id # i
        /\ \A k \in 1..(i - 1) : \E t \in timers : t.id = k

\* hotApplySort(), not forced: the page after the call.
hotApplySort(a) ==
    IF ~a.hasSel \/ a.previewBase = <<>> THEN a
    ELSE IF ~a.autoUpdate THEN a
    ELSE LET cleared == ClearTimeout(a.timers, a.hotApplyTimer)
             id == FreshTimer(cleared)
         IN  [a EXCEPT !.timers = cleared \cup {[id |-> id, left |-> DebounceTicks]},
                       !.hotApplyTimer = id]

\* The page also carries what the properties need of its past: event, the
\* last event handled ("commit", "back", "forward", "TypeError" for a handler
\* that threw, "other"); for a burst of parameter edits made while a selection
\* and a preview base exist, clean (no other event has been handled since the
\* burst began), edits (its edits, counted to 2), quiet (the ticks since its
\* last edit) and sorts (the timer callbacks that have run since it began,
\* counted to 2); undoIndex and undoCanvas, the step
\* and the canvas a Back just pressed started from.
\* A page event other than an edit of a parameter ends the burst.
Event(a, name) ==
    [a EXCEPT !.event = name, !.clean = FALSE, !.sorts = 0, !.quiet = DebounceTicks,
              !.edits = 0, !.undoIndex = 0, !.undoCanvas = <<>>]

NoTimerDue == \A t \in app.timers : t.left > 0
Idle == pc = "idle" /\ NoTimerDue
Dragging == app.drag # <<>>

\* A performSort that sorts what the canvas shows.
performSortOnCanvas(a) ==
    IF a.previewBase = <<>> \/ ~a.hasSel
    THEN /\ app' = [a EXCEPT !.event = "TypeError"]
         /\ UNCHANGED EngineVars
    ELSE /\ app' = a
         /\ inp' = SortParams(a)
         /\ data' = a.canvas
         /\ input0' = a.canvas
         /\ pc' = "start"
         /\ lineIdx' = 0
         /\ todo' = <<>>
         /\ log' = <<>>
         /\ draws' = 0
         /\ UNCHANGED <<originalData, cur, calls, before, preFeather, thrown, remaining>>

\* performSort(): it throws a TypeError where it reads previewBase.data of a
\* null previewBase, and sort() throws one where it takes x, y, w, h of a null
\* selection; otherwise the engine is entered on a copy of previewBase.
performSort(a) ==
    IF a.previewBase = <<>> \/ ~a.hasSel
    THEN /\ app' = [a EXCEPT !.event = "TypeError"]
         /\ UNCHANGED EngineVars
    ELSE /\ app' = a
         /\ inp' = SortParams(a)
         /\ data' = a.previewBase
         /\ input0' = a.previewBase
         /\ pc' = "start"
         /\ lineIdx' = 0
         /\ todo' = <<>>
         /\ log' = <<>>
         /\ draws' = 0
         /\ UNCHANGED <<originalData, cur, calls, before, preFeather, thrown, remaining>>

\* ctx.putImageData(imageData, 0, 0) at the end of performSort, whose
\* imageData and sortParams are then dropped.
PutImage ==
    /\ pc = "done"
    /\ app' = [app EXCEPT !.canvas = data]
    /\ pc' = "idle"
    /\ inp' = NoParams
    /\ data' = <<>>
    /\ before' = <<>>
    /\ preFeather' = <<>>
    /\ input0' = <<>>
    /\ log' = <<>>
    /\ lineIdx' = 0
    /\ UNCHANGED <<originalData, todo, cur, draws, calls, thrown, remaining>>

\* 50 ms pass.
Tick ==
    /\ Idle
    /\ app.quiet < DebounceTicks \/ app.timers # {}
    /\ app' = [app EXCEPT !.quiet = Min2(DebounceTicks, app.quiet + 1),
                          !.timers = {[t EXCEPT !.left = t.left - 1] : t \in app.timers}]
    /\ UNCHANGED EngineVars

\* The callback of a debounce timer.
TimerFire ==
    /\ pc = "idle"
    /\ \E t \in app.timers :
        /\ t.left = 0
        /\ performSort([app EXCEPT !.timers = app.timers \ {t},
                                   !.sorts = Min2(2, app.sorts + 1),
                                   !.event = "other"])

\* An input event of the lower-threshold slider (syncPair).
ParamChange ==
    /\ Idle /\ ~Dragging
    /\ \E v \in PageThresholds \ {app.thresholdLower} :
        LET first == app.quiet = DebounceTicks
            follow == IF first THEN app.hasSel /\ app.previewBase # <<>> ELSE app.clean
            a == [app EXCEPT !.thresholdLower = v,
                             !.event = "other",
                             !.undoIndex = 0, !.undoCanvas = <<>>,
                             !.clean = follow,
                             !.quiet = IF follow THEN 0 ELSE DebounceTicks,
                             !.sorts = IF first THEN 0 ELSE app.sorts,
                             !.edits = IF ~follow THEN 0 ELSE IF first THEN 1 ELSE 2]
        IN  app' = hotApplySort(a)
    /\ UNCHANGED EngineVars

\* The change event of the auto-update box: ticking it forces a sort.
ToggleAutoUpdate ==
    /\ Idle /\ ~Dragging
    /\ LET a == Event([app EXCEPT !.autoUpdate = ~app.autoUpdate], "other")
       IN  IF a.autoUpdate /\ a.hasSel /\ a.previewBase # <<>>
           THEN performSort([a EXCEPT !.timers = ClearTimeout(a.timers, a.hotApplyTimer)])
           ELSE app' = a /\ UNCHANGED EngineVars

\* The Preview button: hotApplySort(true).
Preview ==
    /\ Idle /\ ~Dragging
    /\ app.hasSel /\ app.previewBase # <<>>
    /\ performSort(Event([app EXCEPT !.timers = ClearTimeout(app.timers, app.hotApplyTimer)],
                         "other"))

MouseDown ==
    /\ Idle /\ ~Dragging
    /\ \E g \in Gestures :
        app' = Event([app EXCEPT
                        !.drag = Tail(g), !.dragStart = Head(g),
                        !.canvas = IF app.previewBase # <<>> THEN app.previewBase ELSE app.canvas,
                        !.previewBase = IF app.previewBase # <<>> THEN app.previewBase
                                        ELSE app.canvas,
                        !.hasSel = FALSE, !.selection = NoSelection,
                        !.selectionPoints = IF app.lasso THEN <<Head(g)>> ELSE <<>>], "other")
    /\ UNCHANGED EngineVars

MouseMove ==
    /\ Idle /\ Len(app.drag) > 1
    /\ app' = Event([app EXCEPT
                        !.drag = Tail(app.drag),
                        !.selectionPoints = IF app.lasso THEN Append(@, Head(app.drag)) ELSE @],
                    "other")
    /\ UNCHANGED EngineVars

\* A clamp at the lower end only.
ClampLow(v, hi) == Max2(0, v)

Clamp(v, hi) == Max2(0, Min2(hi, v))

MouseUp ==
    /\ Idle /\ Len(app.drag) = 1
    /\ LET coords == app.drag[1]
           points == Append(app.selectionPoints, coords)
           bbox == getPolygonBoundingBox(points)
           rawX == Min2(app.dragStart.x, coords.x)
           rawY == Min2(app.dragStart.y, coords.y)
           rawW == Abs(coords.x - app.dragStart.x)
           rawH == Abs(coords.y - app.dragStart.y)
           x1 == Clamp(rawX, ImgW)
           y1 == Clamp(rawY, ImgH)
           x2 == Clamp(rawX + rawW, ImgW)
           y2 == Clamp(rawY + rawH, ImgH)
           a == Event([app EXCEPT !.drag = <<>>], "other")
           rejected == [a EXCEPT !.hasSel = FALSE, !.selection = NoSelection,
                                 !.selectionPoints = <<>>,
                                 !.canvas = a.previewBase, !.previewBase = <<>>]
       IN  app' = IF app.lasso
                  THEN IF bbox.w > 2 /\ bbox.h > 2
                       THEN hotApplySort([a EXCEPT !.selectionPoints = points,
                                                   !.hasSel = TRUE, !.selection = bbox])
                       ELSE rejected
                  ELSE IF x2 - x1 > 2 /\ y2 - y1 > 2
                       THEN hotApplySort([a EXCEPT !.hasSel = TRUE,
                                                   !.selection = [x |-> x1, y |-> y1,
                                                                  w |-> x2 - x1, h |-> y2 - y1]])
                       ELSE rejected
    /\ UNCHANGED EngineVars

\* The change event of the lasso box.
ToggleLasso ==
    /\ Idle /\ ~Dragging
    /\ app' = Event([app EXCEPT
                        !.lasso = ~app.lasso,
                        !.canvas = IF app.previewBase # <<>> THEN app.previewBase ELSE app.canvas,
                        !.previewBase = <<>>,
                        !.hasSel = FALSE, !.selection = NoSelection,
                        !.selectionPoints = <<>>], "other")
    /\ UNCHANGED EngineVars

SelectAll ==
    /\ Idle /\ ~Dragging
    /\ LET base == IF app.previewBase # <<>> THEN app.previewBase ELSE app.canvas
       IN  app' = hotApplySort(Event([app EXCEPT
                        !.lasso = FALSE, !.selectionPoints = <<>>,
                        !.canvas = base, !.previewBase = base,
                        !.hasSel = TRUE,
                        !.selection = [x |-> 0, y |-> 0, w |-> ImgW, h |-> ImgH]], "other"))
    /\ UNCHANGED EngineVars

ClearSelection ==
    /\ Idle /\ ~Dragging
    /\ app.hasSel \/ app.previewBase # <<>>
    /\ app' = Event([app EXCEPT
                        !.canvas = IF app.previewBase # <<>> THEN app.previewBase ELSE app.canvas,
                        !.previewBase = <<>>,
                        !.hasSel = FALSE, !.selection = NoSelection,
                        !.selectionPoints = <<>>], "other")
    /\ UNCHANGED EngineVars

\* A push that keeps the steps after the current one.
pushHistoryKeepForward(a) ==
    [a EXCEPT !.history = Append(a.history, a.canvas), !.historyIndex = Len(a.history)]

\* pushHistory(): the canvas as it is goes after the current step.
pushHistory(a) ==
    LET kept == SubSeq(a.history, 1, a.historyIndex + 1)
    IN  [a EXCEPT !.history = Append(kept, a.canvas), !.historyIndex = Len(kept)]

\* The click of the Commit button, which the Enter key makes too.
Commit ==
    /\ Idle /\ ~Dragging
    /\ app.hasSel
    /\ app.historyIndex + 1 < MaxHistory
    /\ app' = Event([pushHistory(app) EXCEPT !.previewBase = <<>>,
                                            !.hasSel = FALSE, !.selection = NoSelection],
                    "commit")
    /\ UNCHANGED EngineVars

\* A navigation that checks the upper end of the range only: historyIndex is
\* set before putImageData throws on the missing snapshot.
navigateHistoryNoLower(a, index) ==
    IF index >= Len(a.history) THEN a
    ELSE [a EXCEPT !.historyIndex = index,
                   !.canvas = IF index < 0 THEN a.canvas ELSE a.history[index + 1]]

navigateHistory(a, index) ==
    IF index < 0 \/ index >= Len(a.history) THEN a
    ELSE [a EXCEPT !.historyIndex = index, !.canvas = a.history[index + 1]]

\* The Back and Forward buttons.  undoIndex and undoCanvas keep the step and
\* the canvas a Back started from.
HistoryBack ==
    /\ Idle /\ ~Dragging
    /\ app' = [Event(navigateHistory(app, app.historyIndex - 1), "back")
                  EXCEPT !.undoIndex = app.historyIndex, !.undoCanvas = app.canvas]
    /\ UNCHANGED EngineVars

HistoryForward ==
    /\ Idle /\ ~Dragging
    /\ app' = Event(navigateHistory(app, app.historyIndex + 1), "forward")
    /\ UNCHANGED EngineVars

AppNext ==
    \/ Tick
    \/ TimerFire
    \/ ParamChange
    \/ ToggleAutoUpdate
    \/ Preview
    \/ MouseDown
    \/ MouseMove
    \/ MouseUp
    \/ ToggleLasso
    \/ SelectAll
    \/ ClearSelection
    \/ Commit
    \/ HistoryBack
    \/ HistoryForward
    \/ Enter
    \/ BeginLine
    \/ SortInterval
    \/ EndLine
    \/ Return
    \/ PutImage

AppSpec == AppInit /\ [][AppNext]_vars

\* The page without its history buttons: selecting, editing and previewing.
\* (hotApplySort and performSort read nothing of the history.)
PreviewNext ==
    \/ Tick
    \/ TimerFire
    \/ ParamChange
    \/ ToggleAutoUpdate
    \/ Preview
    \/ MouseDown
    \/ MouseMove
    \/ MouseUp
    \/ ToggleLasso
    \/ SelectAll
    \/ ClearSelection
    \/ Enter
    \/ BeginLine
    \/ SortInterval
    \/ EndLine
    \/ Return
    \/ PutImage

PreviewSpec == AppInit /\ [][PreviewNext]_vars

\* The same page with more mouse paths: ones that end outside the canvas,
\* above and left of its origin and beyond its far corner, and one that
\* stays left of it.
EdgeGestures ==
    { <<Pt(3, 3), Pt(-1, -1)>>,
      <<Pt(2, 0), Pt(ImgW + 1, ImgH + 1)>>,
      <<Pt(-1, 0), Pt(-5, ImgH)>> }

MouseDownAtEdge ==
    /\ Idle /\ ~Dragging
    /\ \E g \in EdgeGestures :
        app' = Event([app EXCEPT
                        !.drag = Tail(g), !.dragStart = Head(g),
                        !.canvas = IF app.previewBase # <<>> THEN app.previewBase ELSE app.canvas,
                        !.previewBase = IF app.previewBase # <<>> THEN app.previewBase
                                        ELSE app.canvas,
                        !.hasSel = FALSE, !.selection = NoSelection,
                        !.selectionPoints = IF app.lasso THEN <<Head(g)>> ELSE <<>>], "other")
    /\ UNCHANGED EngineVars

DragNext == PreviewNext \/ MouseDownAtEdge

DragSpec == AppInit /\ [][DragNext]_vars

\* ------------------------------------------------------------ the history
\* The page from its start, with its history: loading an image, the state
\* restored from IndexedDB, the sharpen filter, Reset, Commit and the history
\* buttons.  The auto-update box is unticked and Preview is not pressed: the
\* canvas changes by loading, the filter, Reset and the history buttons, and
\* no timer is pending.

\* The intensity the sharpen filter is applied with, the slider's default: a
\* kernel of 3 and -0.5.
SharpenAmounts == {50}

\* sharpen(imageData, amount) of src/filters.js: strength = 1 + amount/25 and
\* edge = -amount/100 on the inner pixels, the border copied; val is twice the
\* sum of the convolution, stored through the Uint8ClampedArray.
sharpen(buf, amount) ==
    LET strength2 == 2 + (amount * 8) \div 100
        edge2 == (amount * 2) \div 100
        inner(k) == /\ (k - 1) \div ImgW \in 1..(ImgH - 2)
                    /\ (k - 1) % ImgW \in 1..(ImgW - 2)
        val(k, c) == strength2 * buf[k][c]
                       - edge2 * (buf[k - ImgW][c] + buf[k - 1][c]
                                    + buf[k + 1][c] + buf[k + ImgW][c])
    IN  [k \in 1..Len(buf) |->
            IF inner(k)
            THEN <<ToUint8Clamp(val(k, 1), 2), ToUint8Clamp(val(k, 2), 2),
                   ToUint8Clamp(val(k, 3), 2), buf[k][4]>>
            ELSE buf[k]]

\* state.imageLoaded: a page with an image has a canvas of the image's size.
ImageLoaded == app.canvas # <<>>

HistInit ==
    /\ app = [page |-> "v2",
              canvas |-> <<>>, originalImage |-> <<>>,
              history |-> <<>>, historyIndex |-> -1,
              hasSel |-> FALSE, selection |-> NoSelection,
              selectionPoints |-> <<>>,
              previewBase |-> <<>>,
              drag |-> <<>>, dragStart |-> Pt(0, 0),
              lasso |-> FALSE, autoUpdate |-> FALSE,
              thresholdLower |-> 0,
              timers |-> {}, hotApplyTimer |-> 0,
              event |-> "other", quiet |-> DebounceTicks, sorts |-> 0, clean |-> FALSE,
              edits |-> 0,
              undoIndex |-> 0, undoCanvas |-> <<>>]
    /\ inp = NoParams
    /\ data = <<>>
    /\ originalData = <<>>
    /\ pc = "idle"
    /\ lineIdx = 0
    /\ todo = <<>>
    /\ cur = NoCur
    /\ draws = 0
    /\ calls = 1
    /\ before = <<>>
    /\ preFeather = <<>>
    /\ input0 = <<>>
    /\ log = <<>>
    /\ thrown = ""
    /\ remaining = {}

\* restoreState() on a page that was left with an image: the saved canvas and
\* the saved original are drawn, the history starts empty.
RestoreState ==
    /\ Idle /\ ~ImageLoaded /\ app.event = "other"
    /\ \E saved \in {ImageA, ImageB} :
        app' = Event([app EXCEPT !.canvas = saved, !.originalImage = ImageA], "restore")
    /\ UNCHANGED EngineVars

\* img.onload of loadImage(file).
LoadImage ==
    /\ Idle /\ ~Dragging
    /\ \E img \in {ImageA, ImageB} \ {app.originalImage} :
        app' = Event(pushHistory([app EXCEPT
                        !.originalImage = img, !.canvas = img,
                        !.hasSel = FALSE, !.selection = NoSelection,
                        !.history = <<>>, !.historyIndex = -1]), "load")
    /\ UNCHANGED EngineVars

\* applyFilter() with the sharpen filter selected.
ApplyFilter ==
    /\ Idle /\ ~Dragging /\ ImageLoaded
    /\ app.historyIndex + 1 < MaxHistory
    /\ \E amount \in SharpenAmounts :
        app' = Event(pushHistory([app EXCEPT !.canvas = sharpen(app.canvas, amount)]),
                     "filter")
    /\ UNCHANGED EngineVars

\* The Reset button.
Reset ==
    /\ Idle /\ ~Dragging
    /\ app.originalImage # <<>>
    /\ app.historyIndex + 1 < MaxHistory
    /\ app' = Event([pushHistory([app EXCEPT !.canvas = app.originalImage])
                        EXCEPT !.hasSel = FALSE, !.selection = NoSelection,
                               !.selectionPoints = <<>>], "reset")
    /\ UNCHANGED EngineVars

\* A history of one step that keeps the first snapshot.
KeepFirst(a) ==
    IF Len(a.history) <= 1 THEN a
    ELSE [a EXCEPT !.history = <<a.history[1]>>, !.historyIndex = 0]

\* The handler of the Flatten button and of the Clear History button.
KeepCurrent(a) ==
    IF Len(a.history) <= 1 THEN a
    ELSE [a EXCEPT !.history = <<a.history[a.historyIndex + 1]>>, !.historyIndex = 0]

Flatten ==
    /\ Idle /\ ~Dragging
    /\ app' = Event(KeepCurrent(app), "flatten")
    /\ UNCHANGED EngineVars

ClearHistory ==
    /\ Idle /\ ~Dragging
    /\ app' = Event(KeepCurrent(app), "clear")
    /\ UNCHANGED EngineVars

HistNext ==
    \/ RestoreState
    \/ LoadImage
    \/ ApplyFilter
    \/ Reset
    \/ ImageLoaded /\ SelectAll
    \/ ImageLoaded /\ ClearSelection
    \/ ImageLoaded /\ Commit
    \/ HistoryBack
    \/ HistoryForward
    \/ Flatten
    \/ ClearHistory

HistSpec == HistInit /\ [][HistNext]_vars

\* ------------------------------------------------------------ claims
Range(f) == {f[k] : k \in DOMAIN f}
Count(f, c) == Cardinality({k \in DOMAIN f : f[k] = c})
SamePixels(f, g) == \A c \in Range(f) \cup Range(g) : Count(f, c) = Count(g, c)
Ascending(f, mode) ==
    \A k \in 1..(Len(f) - 1) : PixVal(f[k], mode) <= PixVal(f[k + 1], mode)

\* The buffer elements of a logged run, and a buffer's pixels on them.
RunIndices(e) ==
    LET line == LineIndices(inp.sel, inp.direction, e.line)
    IN  [k \in 1..Len(e.pos) |-> line[e.pos[k] + 1]]
On(buf, ix) == [k \in 1..Len(ix) |-> buf[ix[k]]]

ExampleIn == <<Red10, Red5, Red8, Red1>>
ExampleOut == <<Red1, Red5, Red8, Red10>>

\* C1: with noiseAmount = 0 and feather off, when sort() has returned every
\* run it detected holds a permutation of the RGBA tuples it held before the
\* call, in non-decreasing order of the mode's scalar; the red values
\* 10, 5, 8, 1 under mode red become 1, 5, 8, 10.
C1_SortedPermutation ==
    (pc = "done" /\ inp.noiseAmount = 0 /\ ~inp.feather) =>
        \A j \in 1..Len(log) :
            LET now == On(data, RunIndices(log[j]))
                was == On(before, RunIndices(log[j]))
            IN  /\ SamePixels(now, was)
                /\ Ascending(now, inp.mode)
                /\ (was = ExampleIn /\ inp.mode = "red") => now = ExampleOut

C1_Witness ==
    /\ pc = "done" /\ calls = 1
    /\ inp.noiseAmount = 0 /\ ~inp.feather
    /\ inp.mode = "red" /\ inp.direction = "horizontal"
    /\ inp.lower = 0 /\ inp.upper = 255
    /\ inp.sel = ExampleRow.sel
    /\ Len(log) = 1
    /\ On(before, RunIndices(log[1])) = ExampleIn
    /\ On(data, RunIndices(log[1])) = ExampleOut

\* C2: when thresholdLower > thresholdUpper no run is detected and the buffer
\* stays byte-identical throughout the call, whatever the mode, direction,
\* noiseAmount and feather setting.
C2_EmptyWindowNoOp ==
    (inp.lower > inp.upper /\ pc # "start") =>
        /\ data = before
        /\ log = <<>> /\ todo = <<>>
        /\ draws = 0

C2_Witness ==
    /\ pc = "done"
    /\ inp.lower = 255 /\ inp.upper = 0
    /\ inp.noiseAmount > 0 /\ FeatherOn
    /\ inp.direction = "vertical" /\ inp.mode = "saturation"
    /\ data = before

\* C3: no pixel outside the selection's bounding box ever differs from its
\* value at the start of the call, for both directions, any noiseAmount,
\* feather on or off, rectangle or polygon.
C3_OutsideUntouched ==
    pc # "start" => \A k \in 1..Len(data) : ~InBBox(inp.sel, k) => data[k] = before[k]

C3_Witness ==
    /\ pc = "done"
    /\ hasPolygon(inp.pts) /\ FeatherOn /\ inp.noiseAmount > 0
    /\ \E k \in 1..Len(data) : ~InBBox(inp.sel, k)
    /\ \E k \in 1..Len(data) : InBBox(inp.sel, k) /\ data[k] # before[k]

\* The even-odd rule, stated on the set of edges: the horizontal ray from
\* (x, y) towards +infinity crosses an odd number of them.  Edge i joins
\* vertex i to its predecessor; it is crossed when exactly one of its ends lies
\* strictly below the ray's line (larger y) and the edge meets that line
\* strictly to the right of x.
EdgeCrossed(x, y, p, q) ==
    /\ (p.y > y /\ q.y <= y) \/ (q.y > y /\ p.y <= y)
    /\ LET lo == IF p.y < q.y THEN p ELSE q
           hi == IF p.y < q.y THEN q ELSE p
       IN  (x - lo.x) * (hi.y - lo.y) < (hi.x - lo.x) * (y - lo.y)
EvenOddInside(x, y, vs) ==
    Cardinality({i \in 1..Len(vs) :
        EdgeCrossed(x, y, vs[i], vs[IF i = 1 THEN Len(vs) ELSE i - 1])}) % 2 = 1

\* The buffer element at position i (from 0) of a line of the selection.
PixelAt(line, i) == LineIndices(inp.sel, inp.direction, line)[i + 1]
\* The threshold window of the claims: both bounds inclusive.
Within(nv) == inp.lower * nv.d <= nv.n /\ nv.n <= inp.upper * nv.d

ComparedValue(p) ==
    IF inp.variant = "opt" THEN Float32Value(p, inp.mode)
    ELSE normalizeValue(PixVal(p, inp.mode), inp.mode)
InMask(k) ==
    CASE inp.variant = "ref" ->
            hasPolygon(inp.pts) => EvenOddInside(ColAt(k), RowAt(k), inp.pts)
      [] inp.variant = "orig" -> TRUE
      [] inp.variant = "opt" ->
            hasPolygon(inp.pts) =>
                inp.hostMask[(RowAt(k) - inp.sel.y) * inp.sel.w + (ColAt(k) - inp.sel.x) + 1] = 1

\* Position i of a line was in-interval when the call began.
Lines == 0..(LineCount(inp.sel, inp.direction) - 1)
Positions == 0..(LineLen(inp.sel, inp.direction) - 1)
Passing(line, i) ==
    /\ i \in Positions
    /\ InMask(PixelAt(line, i)) /\ Within(ComparedValue(before[PixelAt(line, i)]))

\* C5: with feather off and any noiseAmount, a position that is in-interval
\* while neither neighbour on its line is (or the line ends there) holds its
\* entry value in every state of the call.
C5_SingletonUntouched ==
    (pc # "start" /\ ~inp.feather) =>
        \A line \in Lines : \A i \in Positions :
            (Passing(line, i) /\ ~Passing(line, i - 1) /\ ~Passing(line, i + 1))
                => data[PixelAt(line, i)] = before[PixelAt(line, i)]

\* A singleton on a line that also holds a run which noise swaps changed.
C5_Witness ==
    /\ pc = "done" /\ inp.noiseAmount > 0 /\ ~inp.feather
    /\ \E line \in Lines : \E i \in Positions :
          /\ Passing(line, i) /\ ~Passing(line, i - 1) /\ ~Passing(line, i + 1)
          /\ \E j \in 1..Len(log) :
                /\ log[j].line = line /\ log[j].swaps > 0
                /\ On(data, RunIndices(log[j])) # On(before, RunIndices(log[j]))

\* The buffer sort() returns, as a function of the buffer it is given (and of
\* the selection and options of the call) when no swap is made.
RECURSIVE SortRuns(_, _, _)
SortRuns(buf, line, runs) ==
    IF runs = <<>> THEN buf
    ELSE LET ix == [k \in 1..Len(Head(runs)) |-> PixelAt(line, Head(runs)[k])]
         IN  SortRuns(WriteBack(buf, ix, SortByValue(On(buf, ix), inp.mode)), line, Tail(runs))
RECURSIVE SortLines(_, _)
SortLines(buf, line) ==
    IF line \notin Lines THEN buf
    ELSE SortLines(SortRuns(buf, line, IntervalsOf(buf, inp, line)), line + 1)
Outcome(buf) ==
    IF ~FeatherOn THEN SortLines(buf, 0)
    ELSE IF inp.variant = "ref"
    THEN FeatherRef(SortLines(buf, 0), buf, inp.sel, inp.pts, inp.featherRadius)
    ELSE applyFeathering(SortLines(buf, 0), buf, inp.sel, inp.featherRadius, inp.pts,
                         inp.hostAlpha)

\* C6: with noiseAmount = 0 the call never draws from Math.random and never
\* enters the swap loop, and the buffer it returns is a function of the buffer,
\* selection and options it was given: two calls on identical inputs return
\* identical buffers.
C6_NoiseZeroDeterministic ==
    inp.noiseAmount = 0 =>
        /\ draws = 0 /\ pc # "noise" /\ cur = NoCur
        /\ \A j \in 1..Len(log) : log[j].swaps = 0
        /\ pc = "done" => data = Outcome(before)

C6_Witness ==
    /\ pc = "done" /\ inp.noiseAmount = 0 /\ draws = 0
    /\ Len(log) > 1
    /\ data # before /\ data = Outcome(before)

\* The runs of the log whose noise step is over, and the swaps logged.
Completed == {j \in 1..Len(log) : j < Len(log) \/ pc # "noise"}
RECURSIVE SwapsLogged(_)
SwapsLogged(j) == IF j = 0 THEN 0 ELSE log[j].swaps + SwapsLogged(j - 1)
Logged(k) == \E j \in 1..Len(log) : \E m \in 1..Len(log[j].pos) :
                 PixelAt(log[j].line, log[j].pos[m]) = k

\* C7: with noiseAmount n in 1..100, the noise step of a run of len >= 2
\* positions makes exactly floor(n * len / 100) swaps, each with two draws,
\* each exchanging whole RGBA tuples: the run keeps its multiset of tuples,
\* and with feather off nothing outside the runs is written.
C7_NoiseSwaps ==
    (inp.noiseAmount \in 1..100 /\ pc # "start") =>
        /\ \A j \in Completed :
              log[j].swaps = (inp.noiseAmount * Len(log[j].pos)) \div 100
        /\ draws = 2 * SwapsLogged(Len(log))
        /\ pc = "noise" => SamePixels(cur.entries, On(before, cur.indices))
        /\ ~inp.feather =>
              /\ \A j \in Completed :
                    SamePixels(On(data, RunIndices(log[j])), On(before, RunIndices(log[j])))
              /\ \A k \in 1..Len(data) : data[k] # before[k] => Logged(k)

\* C8: with noiseAmount = 0 and feather off, sorting the output of sort()
\* again with the same selection and options changes no byte, in any state of
\* the second call; and a run that is ascending when a call begins holds the
\* same pixels when the call returns.
C8_Idempotent ==
    (inp.noiseAmount = 0 /\ ~inp.feather /\ pc # "start") =>
        /\ calls >= 2 => data = before
        /\ pc = "done" =>
              \A j \in 1..Len(log) :
                  Ascending(On(before, RunIndices(log[j])), inp.mode)
                      => On(data, RunIndices(log[j])) = On(before, RunIndices(log[j]))

\* A second call that found runs to sort in the changed output of the first.
C8_Witness ==
    /\ pc = "done" /\ calls = 2
    /\ inp.noiseAmount = 0 /\ ~inp.feather
    /\ Len(log) > 1
    /\ before # input0 /\ data = before

\* min(|px - x|, |px - (x + w)|, |py - y|, |py - (y + h)|) of buffer element k
RectDist(k) ==
    LET dx == Min2(Abs(ColAt(k) - inp.sel.x), Abs(ColAt(k) - (inp.sel.x + inp.sel.w)))
        dy == Min2(Abs(RowAt(k) - inp.sel.y), Abs(RowAt(k) - (inp.sel.y + inp.sel.h)))
    IN  Min2(dx, dy)

\* C9: with feather on and featherRadius R > 0 on a rectangle, when sort()
\* has returned every pixel of the bounding box at distance 0 from the
\* boundary holds its pre-sort value, and every one at distance >= R holds the
\* value the line loop gave it, which is the result with feather off.
C9_FeatherBoundaryValues ==
    (pc = "done" /\ FeatherOn /\ ~hasPolygon(inp.pts)) =>
        \A k \in 1..Len(data) : InBBox(inp.sel, k) =>
            /\ RectDist(k) = 0 => data[k] = before[k]
            /\ RectDist(k) >= inp.featherRadius => data[k] = preFeather[k]

\* A boundary pixel that the sort had changed, and a pixel at the radius or
\* beyond that keeps its sorted value.
C9_Witness ==
    /\ pc = "done" /\ FeatherOn /\ ~hasPolygon(inp.pts)
    /\ \E k \in 1..Len(data) :
          InBBox(inp.sel, k) /\ RectDist(k) = 0
              /\ preFeather[k] # before[k] /\ data[k] = before[k]
    /\ \E k \in 1..Len(data) :
          InBBox(inp.sel, k) /\ RectDist(k) >= inp.featherRadius
              /\ data[k] # before[k] /\ data[k] = preFeather[k]

\* The maximal runs of a line: first and last position of each stretch of two
\* or more passing positions with no passing neighbour.
MaxRuns(line) ==
    {r \in Positions \X Positions :
        /\ r[1] < r[2]
        /\ \A i \in r[1]..r[2] : Passing(line, i)
        /\ ~Passing(line, r[1] - 1) /\ ~Passing(line, r[2] + 1)}
RunOf(e) == <<e.pos[1], e.pos[Len(e.pos)]>>

\* C10: when sort() has returned, the runs it sorted on each line are exactly
\* the maximal stretches, two or more positions long, of positions that are in
\* the mask and whose normalized scalar is in the threshold window, bounds
\* included; they are pairwise disjoint; a line all of whose positions pass
\* was sorted as one run, and a line with no passing position is unchanged.
C10_MaximalRuns ==
    pc = "done" =>
        /\ \A j \in 1..Len(log) :
              /\ log[j].pos = [k \in 1..Len(log[j].pos) |-> log[j].pos[1] + k - 1]
              /\ RunOf(log[j]) \in MaxRuns(log[j].line)
        /\ \A line \in Lines : \A r \in MaxRuns(line) :
              Cardinality({j \in 1..Len(log) : log[j].line = line /\ RunOf(log[j]) = r}) = 1
        /\ \A i, j \in 1..Len(log) :
              (i # j /\ log[i].line = log[j].line)
                  => Range(log[i].pos) \cap Range(log[j].pos) = {}
        /\ \A line \in Lines :
              /\ (Cardinality(Positions) >= 2 /\ \A i \in Positions : Passing(line, i))
                    => \E j \in 1..Len(log) :
                          log[j].line = line /\ Range(log[j].pos) = Positions
              /\ (\A i \in Positions : ~Passing(line, i))
                    => \A i \in Positions : data[PixelAt(line, i)] = before[PixelAt(line, i)]

\* One line with two sorted runs and a non-passing position between them,
\* one of the runs holding a pixel whose scalar is the lower threshold itself.
C10_Witness ==
    /\ pc = "done"
    /\ \E i, j \in 1..Len(log) :
          /\ log[i].line = log[j].line
          /\ RunOf(log[i])[2] < RunOf(log[j])[1]
          /\ \E m \in 1..Len(log[i].pos) :
                PixVal(before[PixelAt(log[i].line, log[i].pos[m])], inp.mode)
                    = inp.lower * 1000000
          /\ On(data, RunIndices(log[i])) # On(before, RunIndices(log[i]))

\* A line all of whose positions pass, sorted as one run.
C10_WholeLine ==
    /\ pc = "done"
    /\ \E j \in 1..Len(log) :
          /\ Range(log[j].pos) = Positions
          /\ On(data, RunIndices(log[j])) # On(before, RunIndices(log[j]))

\* A line without a passing position in a call that sorted other lines.
C10_NoMatch ==
    /\ pc = "done" /\ log # <<>> /\ data # before
    /\ \E line \in Lines : \A i \in Positions : ~Passing(line, i)

\* C12: a call with a selection of zero or negative width or height raises no
\* error and leaves the buffer as it was, in both directions, feather on or off.
C12_EmptySelectionNoOp ==
    (inp.sel.w <= 0 \/ inp.sel.h <= 0) =>
        /\ thrown = ""
        /\ pc # "start" => data = before /\ log = <<>>

\* C13: a call with thresholdLower or thresholdUpper outside 0..255, or with
\* noiseAmount outside 0..100, ends with a validation error: it sorts no run,
\* never returns normally and leaves the buffer as it was.
InvalidOptions ==
    \/ inp.lower \notin 0..255 \/ inp.upper \notin 0..255
    \/ inp.noiseAmount \notin 0..100
C13_InvalidOptionsRejected ==
    InvalidOptions =>
        /\ pc # "done" /\ log = <<>>
        /\ pc = "thrown" => thrown = "ValidationError"
        /\ pc # "start" => data = before

\* C14: a call with a mode that is none of brightness, hue, saturation, red,
\* green, blue, gamma ends with an UnsupportedMode error: it sorts no run by
\* brightness or otherwise, never returns normally and leaves the buffer as
\* it was.
C14_UnsupportedModeRejected ==
    inp.mode \notin Modes =>
        /\ pc # "done" /\ log = <<>>
        /\ pc = "thrown" => thrown = "UnsupportedMode"
        /\ pc # "start" => data = before

\* C15 as stated: with feather off, the alpha sample at every buffer position
\* is the same after the call as before it.
C15_AlphaPerPosition ==
    (pc = "done" /\ ~FeatherOn) =>
        \A k \in 1..Len(data) : data[k][4] = before[k][4]

UniformAlpha(buf, idxs) ==
    \A m, n \in 1..Len(idxs) : buf[idxs[m]][4] = buf[idxs[n]][4]

\* C15, amended: with feather off, alpha moves with its colour.  Every
\* position outside the sorted runs keeps its alpha sample, every sorted run
\* holds the same RGBA tuples after its write-back as before the call (so no
\* colour is ever paired with another pixel's alpha), and a run whose alpha
\* samples are all equal keeps its alpha at every position; for any mode,
\* direction and noiseAmount.
C15_AlphaFollowsColour ==
    (pc # "start" /\ ~FeatherOn) =>
        /\ \A k \in 1..Len(data) : ~Logged(k) => data[k][4] = before[k][4]
        /\ \A j \in Completed :
              LET idxs == RunIndices(log[j])
              IN  /\ SamePixels(On(data, idxs), On(before, idxs))
                  /\ UniformAlpha(before, idxs) =>
                        \A m \in 1..Len(idxs) : data[idxs[m]][4] = before[idxs[m]][4]

\* A finished call, feather off, in which one run of mixed alpha was
\* reordered (a position now holds another alpha sample) and another run of
\* equal alpha was reordered too.
C15_Witness ==
    /\ pc = "done" /\ ~FeatherOn
    /\ \E k \in 1..Len(data) : data[k][4] # before[k][4]
    /\ \E j \in 1..Len(log) :
          LET idxs == RunIndices(log[j])
          IN  /\ UniformAlpha(before, idxs)
              /\ On(data, idxs) # On(before, idxs)

\* The colours of f whose scalar under the mode is v, in the order of f.
RECURSIVE Ties(_, _, _)
Ties(f, v, mode) ==
    IF f = <<>> THEN <<>>
    ELSE (IF PixVal(Head(f), mode) = v THEN <<Head(f)>> ELSE <<>>) \o Ties(Tail(f), v, mode)

\* C16: with noiseAmount = 0 the sort of a run is stable: for every scalar
\* value, the colours of the run that have this value stand after the call in
\* the order they had before it.
C16_Stable ==
    (inp.noiseAmount = 0 /\ ~FeatherOn /\ pc # "start") =>
        \A j \in 1..Len(log) :
            LET idxs == RunIndices(log[j])
                was == On(before, idxs)
                now == On(data, idxs)
            IN  \A m \in 1..Len(was) :
                    Ties(now, PixVal(was[m], inp.mode), inp.mode)
                        = Ties(was, PixVal(was[m], inp.mode), inp.mode)

\* A finished call with mode red and no noise that reordered a run holding
\* two different colours of equal red, not next to each other before.
C16_Witness ==
    /\ pc = "done" /\ inp.noiseAmount = 0 /\ ~FeatherOn /\ inp.mode = "red"
    /\ \E j \in 1..Len(log) :
          LET idxs == RunIndices(log[j])
              was == On(before, idxs)
          IN  /\ On(data, idxs) # was
              /\ \E m, n \in 1..Len(was) :
                    /\ m + 1 < n
                    /\ was[m] # was[n]
                    /\ was[m][1] = was[n][1]
                    /\ was[m][2] # was[n][2]

\* The buffer elements of line l of the selection: one row of the selection's
\* columns, or one column of its rows.
OwnPositions(l) ==
    IF inp.direction = "horizontal"
    THEN {(inp.sel.y + l) * imgWidth + c + 1 : c \in inp.sel.x..(inp.sel.x + inp.sel.w - 1)}
    ELSE {r * imgWidth + (inp.sel.x + l) + 1 : r \in inp.sel.y..(inp.sel.y + inp.sel.h - 1)}

\* C17: with noiseAmount = 0 the lines are independent.  While the lines are
\* processed in any order and interleaved, a line not yet begun still holds
\* the pixels it held before the call, a run waiting to be sorted holds them
\* too and lies on its own line, every element written so far lies on the
\* line of a run already sorted, and the buffer returned is the one the loop
\* in line order returns.
C17_LinesIndependent ==
    (inp.noiseAmount = 0 /\ pc # "start") =>
        /\ \A l \in remaining : \A k \in OwnPositions(l) : data[k] = before[k]
        /\ \A i \in 1..Len(todo) :
              /\ Range(todo[i].indices) \subseteq OwnPositions(todo[i].line)
              /\ On(data, todo[i].indices) = On(before, todo[i].indices)
        /\ pc = "line" =>
              \A k \in 1..Len(data) :
                  data[k] # before[k] => \E j \in 1..Len(log) : k \in OwnPositions(log[j].line)
        /\ pc = "done" => data = Outcome(before)

\* A finished call whose lines were not processed in line order: a later
\* line's run was sorted before an earlier line's, both changing the buffer,
\* and the two runs of one line were sorted with another line's run between.
C17_Witness ==
    /\ pc = "done" /\ inp.noiseAmount = 0
    /\ \E i, j \in 1..Len(log) :
          /\ i < j /\ log[i].line > log[j].line
          /\ On(data, RunIndices(log[i])) # On(before, RunIndices(log[i]))
          /\ On(data, RunIndices(log[j])) # On(before, RunIndices(log[j]))
    /\ \E i, j, k \in 1..Len(log) :
          /\ i < j /\ j < k
          /\ log[i].line = log[k].line /\ log[j].line # log[i].line

\* C11: every selection that reaches sort() from the page lies inside the
\* buffer, so that every position a line addresses is a pixel of the buffer
\* in the row and column addressed.
C11_SelectionClamped ==
    (app.page # "none" /\ pc = "start") =>
        /\ 0 <= inp.sel.x /\ 0 <= inp.sel.y
        /\ inp.sel.x + inp.sel.w <= imgWidth
        /\ (inp.sel.y + inp.sel.h) * imgWidth <= Len(data)
        /\ \A l \in 0..(LineCount(inp.sel, inp.direction) - 1) :
              \A i \in 0..(LineLen(inp.sel, inp.direction) - 1) :
                  /\ ColOf(inp.sel, inp.direction, l, i) \in 0..(imgWidth - 1)
                  /\ Idx(RowOf(inp.sel, inp.direction, l, i),
                         ColOf(inp.sel, inp.direction, l, i)) \in 1..Len(data)

\* What the page holds while a burst of parameter edits is followed: nothing
\* sorted before 150 ms have passed since the last edit, one timer pending
\* until then, set by the last edit; one sort once they have passed.
BurstSortsOnce ==
    /\ app.quiet < DebounceTicks =>
          /\ app.sorts = 0
          /\ app.timers = {[id |-> app.hotApplyTimer, left |-> DebounceTicks - app.quiet]}
    /\ (app.quiet = DebounceTicks /\ app.timers = {}) => app.sorts = 1
    /\ pc = "start" =>
          /\ app.sorts = 1
          /\ inp = SortParams(app) /\ data = app.previewBase

RECURSIVE SortedRuns(_, _, _, _)
SortedRuns(buf, in, line, runs) ==
    IF runs = <<>> THEN buf
    ELSE LET all == LineIndices(in.sel, in.direction, line)
             ix == [k \in 1..Len(Head(runs)) |-> all[Head(runs)[k] + 1]]
         IN  SortedRuns(WriteBack(buf, ix, SortByValue(On(buf, ix), in.mode)),
                        in, line, Tail(runs))
RECURSIVE SortedLines(_, _, _)
SortedLines(buf, in, line) ==
    IF line >= LineCount(in.sel, in.direction) THEN buf
    ELSE SortedLines(SortedRuns(buf, in, line, IntervalsOf(buf, in, line)), in, line + 1)

CommitStep == app.hasSel /\ app'.event = "commit"

\* C18: the snapshot that Commit pushes is previewBase sorted over the
\* selection with the parameters of the time of the Commit, and Commit leaves
\* no selection and no previewBase.
C18_CommitSavesSort ==
    [][CommitStep =>
          /\ app'.history[app'.historyIndex + 1]
                = SortedLines(app.previewBase, SortParams(app), 0)
          /\ ~app'.hasSel /\ app'.previewBase = <<>>]_vars

NavStep == app'.event \in {"back", "forward"} /\ app' # app
NavIndex == IF app'.event = "back" THEN app.historyIndex - 1 ELSE app.historyIndex + 1

\* C20: navigateHistory(i) with i in range sets historyIndex to i and the
\* canvas to history[i] and leaves the history as it is; out of range it
\* changes nothing; and a Forward pressed right after a Back, both in range,
\* returns to the historyIndex and to the canvas the Back started from.
C20_BackForward ==
    [][NavStep =>
          /\ app'.history = app.history
          /\ NavIndex \in 0..(Len(app.history) - 1) =>
                /\ app'.historyIndex = NavIndex
                /\ app'.canvas = app.history[NavIndex + 1]
          /\ NavIndex \notin 0..(Len(app.history) - 1) =>
                /\ app'.historyIndex = app.historyIndex
                /\ app'.canvas = app.canvas
          /\ (/\ app.event = "back" /\ app'.event = "forward"
              /\ app.undoIndex > 0
              /\ NavIndex < Len(app.history)) =>
                /\ app'.historyIndex = app.undoIndex
                /\ app'.canvas = app.undoCanvas]_vars

FlattenStep == app'.event \in {"flatten", "clear"} /\ app' # app

\* C21: Flatten and Clear History leave the canvas (and the selection and the
\* preview base) as they are; with more than one snapshot the history becomes
\* the single snapshot history[historyIndex] and historyIndex 0, with at most
\* one snapshot the history and historyIndex stay as they are.
C21_FlattenKeepsCurrent ==
    [][FlattenStep =>
          /\ app'.canvas = app.canvas
          /\ app'.hasSel = app.hasSel /\ app'.selection = app.selection
          /\ app'.previewBase = app.previewBase
          /\ Len(app.history) > 1 =>
                /\ app'.history = <<app.history[app.historyIndex + 1]>>
                /\ app'.historyIndex = 0
          /\ Len(app.history) <= 1 =>
                /\ app'.history = app.history
                /\ app'.historyIndex = app.historyIndex]_vars

\* A history flattened to a snapshot that two filter steps made: it was the
\* second or third snapshot before Flatten.
C21_Witness ==
    /\ app.event = "flatten"
    /\ app.originalImage = ImageA
    /\ app.history = <<sharpen(sharpen(ImageA, 50), 50)>>
    /\ app.historyIndex = 0

PushStep == app'.event \in {"commit", "filter", "reset"} /\ app' # app

\* C24: a push (Commit, a filter, Reset) keeps the snapshots 0..historyIndex,
\* drops the later ones, appends the canvas it leaves and makes the new
\* snapshot the current one, so that no step lies after it for Forward; the
\* push of a loaded image starts the history over with the image alone.
C24_PushTruncates ==
    [][/\ PushStep =>
            /\ Len(app'.history) = app.historyIndex + 2
            /\ \A i \in 0..app.historyIndex : app'.history[i + 1] = app.history[i + 1]
            /\ app'.history[Len(app'.history)] = app'.canvas
            /\ app'.historyIndex = Len(app'.history) - 1
            /\ navigateHistory(app', app'.historyIndex + 1) = app'
       /\ (app'.event = "load" /\ app' # app) =>
            /\ app'.history = <<app'.canvas>>
            /\ app'.historyIndex = 0]_vars

\* A filter step pushed after another one: two snapshots, the second current.
C24_Witness ==
    /\ app.event = "filter"
    /\ app.originalImage = ImageA
    /\ app.history = <<sharpen(ImageA, 50), sharpen(sharpen(ImageA, 50), 50)>>
    /\ app.historyIndex = 1

\* C25: historyIndex is at least -1 and below the length of the history, and
\* it is -1 exactly when the history is empty.
C25_IndexInRange ==
    /\ app.historyIndex \in -1..(Len(app.history) - 1)
    /\ app.historyIndex = -1 <=> app.history = <<>>

\* Back pressed with a full history and the first step reached.
C25_Witness ==
    /\ app.event = "back"
    /\ app.historyIndex = 0
    /\ Len(app.history) = MaxHistory

\* C22: on a rectangle of at least one pixel with featherRadius >= 1, the
\* border-strip feather pass of the flat-array variant calls blendPixel at
\* most once on a pixel and leaves every pixel of the bounding box with the
\* value of the per-pixel pass, original + (sorted - original) *
\* smoothstep(dist / R) with dist the least distance to the four sides.
C22_StripFeatherIsReference ==
    (/\ pc = "done" /\ inp.variant = "opt" /\ FeatherOn /\ ~hasPolygon(inp.pts)
     /\ inp.sel.w >= 1 /\ inp.sel.h >= 1) =>
        \A k \in 1..Len(data) : InBBox(inp.sel, k) =>
            /\ Len(StripBlends(RowAt(k), ColAt(k), inp.sel, inp.featherRadius)) <= 1
            /\ data[k] = FeatherRef(preFeather, originalData, inp.sel, inp.pts,
                                    inp.featherRadius)[k]

TimerRuns == \E t \in app.timers : t.left = 0 /\ app'.timers = app.timers \ {t}

\* C23: when the callback of the debounce timer runs, previewBase and the
\* selection are set.
C23_TimerFindsPreview ==
    [][TimerRuns => (app.previewBase # <<>> /\ app.hasSel)]_vars

\* C26: whenever previewBase is set and the history is not empty, previewBase
\* is the committed image history[historyIndex].
C26_BaseIsCommitted ==
    (app.previewBase # <<>> /\ app.history # <<>>) =>
        app.previewBase = app.history[app.historyIndex + 1]

\* C27: a preview leaves previewBase as it is, from the start of performSort
\* to its putImageData, and the canvas it draws is previewBase sorted over the
\* selection with the parameters of the page, whatever was previewed before.
C27_PreviewFromBase ==
    [][/\ (pc # "idle" \/ pc' # "idle") => app'.previewBase = app.previewBase
       /\ (pc = "done" /\ pc' = "idle") =>
             app'.canvas = SortedLines(app.previewBase, SortParams(app), 0)]_vars

\* A preview with the lower threshold 6 on the canvas, which differs from
\* the base and from the preview with the lower threshold 0.
C27_Witness ==
    /\ pc = "idle" /\ app.hasSel /\ app.previewBase # <<>>
    /\ app.thresholdLower = 6
    /\ app.canvas # app.previewBase
    /\ app.canvas = SortedLines(app.previewBase, SortParams(app), 0)
    /\ app.canvas # SortedLines(app.previewBase,
                                [SortParams(app) EXCEPT !.lower = 0], 0)

\* The parameters of the call, given to the variant v.
WithVariant(v) == [inp EXCEPT !.variant = v]

\* C28: on a rectangle with feather off the three variants find the same runs
\* on every line of the buffer they are given (and so sort, and draw for, the
\* same runs in the same order), and without noise they return the same
\* buffer.
C28_VariantsAgree ==
    (pc = "done" /\ ~hasPolygon(inp.pts) /\ ~inp.feather) =>
        \A v \in Variants :
            /\ \A l \in 0..(LineCount(inp.sel, inp.direction) - 1) :
                  IntervalsOf(before, WithVariant(v), l) = IntervalsOf(before, inp, l)
            /\ inp.noiseAmount = 0 => data = SortedLines(before, WithVariant(v), 0)

MouseUpStep == Len(app.drag) = 1 /\ app'.drag = <<>>

\* C29: a mouseup in rectangle mode stores the dragged rectangle cut to the
\* canvas when what is left is wider and higher than 2, and otherwise leaves
\* no selection and no previewBase.
C29_DragClipped ==
    [][(MouseUpStep /\ ~app.lasso) =>
          LET left == Max2(0, Min2(app.dragStart.x, app.drag[1].x))
              right == Min2(ImgW, Max2(app.dragStart.x, app.drag[1].x))
              top == Max2(0, Min2(app.dragStart.y, app.drag[1].y))
              bottom == Min2(ImgH, Max2(app.dragStart.y, app.drag[1].y))
          IN  IF right - left > 2 /\ bottom - top > 2
              THEN /\ app'.hasSel
                   /\ app'.selection = [x |-> left, y |-> top,
                                        w |-> right - left, h |-> bottom - top]
              ELSE ~app'.hasSel /\ app'.previewBase = <<>>]_vars

\* The selection left by the drag that ends beyond the far corner.
C29_Witness ==
    /\ app.page = "v2" /\ ~app.lasso /\ app.drag = <<>>
    /\ app.hasSel
    /\ app.selection = [x |-> 2, y |-> 0, w |-> ImgW - 2, h |-> ImgH]

\* C30: with feather true and featherRadius 0 no pre-sort copy is taken and
\* no pixel is blended: what sort() returns is what its line loop left, the
\* result of the call with feather false.
C30_ZeroRadiusIsOff ==
    (inp.feather /\ inp.featherRadius = 0 /\ app.page = "none") =>
        /\ originalData = <<>>
        /\ pc = "done" =>
              /\ data = preFeather
              /\ inp.noiseAmount = 0 =>
                    data = SortedLines(before, [inp EXCEPT !.feather = FALSE], 0)

\* A call with the box ticked and radius 0 that has returned a sorted buffer.
C30_Witness ==
    /\ pc = "done" /\ inp.feather /\ inp.featherRadius = 0
    /\ inp.variant = "opt"
    /\ data # before

====
